---- MODULE Spec2Model ----
(***************************************************************************)
(* Model of the credential normaliser of alpha_insights_bot               *)
(* (src/google_service_utils.py, normalize_service_account_json) together *)
(* with the library conversions it calls: json.loads, json.dumps,         *)
(* str.replace, str.strip, base64.b64decode/b64encode and UTF-8.          *)
(*                                                                         *)
(* A text is a sequence of Unicode code points (integers), a byte string  *)
(* a sequence of integers 0..255.  A Python value is a tagged record      *)
(* [t |-> type name, v |-> payload]:                                      *)
(*   "dict"  v = sequence of [k |-> text, v |-> value], keys distinct,    *)
(*               in insertion order                                       *)
(*   "list"  v = sequence of values                                       *)
(*   "str"   v = text                                                     *)
(*   "int"   v = integer                                                  *)
(*   "float" v = the lexeme (text) the float was read from                *)
(*   "bool"  v = BOOLEAN          "NoneType"  v = 0                       *)
(***************************************************************************)
EXTENDS Integers, Sequences, FiniteSets, TLC

(***************************************************************************)
(* Characters                                                              *)
(***************************************************************************)
Printable ==
  << " ", "!", "dquote", "#", "$", "%", "&", "'", "(", ")", "*", "+", ",", "-", ".", "/",
     "0", "1", "2", "3", "4", "5", "6", "7", "8", "9", ":", ";", "<", "=", ">", "?",
     "@", "A", "B", "C", "D", "E", "F", "G", "H", "I", "J", "K", "L", "M", "N", "O",
     "P", "Q", "R", "S", "T", "U", "V", "W", "X", "Y", "Z", "[", "\\", "]", "^", "_",
     "backtick", "a", "b", "c", "d", "e", "f", "g", "h", "i", "j", "k", "l", "m", "n", "o",
     "p", "q", "r", "s", "t", "u", "v", "w", "x", "y", "z", "{", "|", "}", "~" >>

\* The code point of a character given as a one-character string (the double
\* quote and the backtick are spelled "dquote" and "backtick").
CodePoint(c) ==
  IF c = "\n" THEN 10
  ELSE IF c = "\r" THEN 13
  ELSE IF c = "\t" THEN 9
  ELSE 31 + (CHOOSE i \in 1..Len(Printable) : Printable[i] = c)
Ascii ==
  [c \in {Printable[i] : i \in 1..Len(Printable)} \cup {"\n", "\r", "\t"} |-> CodePoint(c)]
Ord(c) == Ascii[c]

\* The text spelled by a tuple of one-character strings.
Text(chars) == [i \in 1..Len(chars) |-> Ord(chars[i])]

\* The code points the code and the decoders name.
TAB == 9
LF == 10
CR == 13
SPACE == 32
QUOTE == 34
PLUS == 43
COMMA == 44
MINUS == 45
DOT == 46
SLASH == 47
DIGIT_0 == 48
DIGIT_9 == 57
COLON == 58
EQUALS == 61
UPPER_A == 65
UPPER_E == 69
UPPER_F == 70
UPPER_Z == 90
LBRACKET == 91
BACKSLASH == 92
RBRACKET == 93
LOWER_a == 97
LOWER_b == 98
LOWER_e == 101
LOWER_f == 102
LOWER_n == 110
LOWER_r == 114
LOWER_t == 116
LOWER_u == 117
LOWER_z == 122
LBRACE == 123
RBRACE == 125
TILDE == 126

IsDigit(c) == c >= DIGIT_0 /\ c <= DIGIT_9

HexVal(c) ==
  IF IsDigit(c) THEN c - DIGIT_0
  ELSE IF c >= LOWER_a /\ c <= LOWER_f THEN c - LOWER_a + 10
  ELSE IF c >= UPPER_A /\ c <= UPPER_F THEN c - UPPER_A + 10
  ELSE -1

HexDigit(d) == IF d < 10 THEN DIGIT_0 + d ELSE LOWER_a + d - 10

\* s[i..j-1] = pat, as str.startswith(pat, i)
StartsWith(s, i, pat) ==
  /\ i + Len(pat) - 1 <= Len(s)
  /\ \A j \in 1..Len(pat) : s[i + j - 1] = pat[j]

\* The first index j >= i of s with s[j] in chars, Len(s) + 1 when there is
\* none; FirstNotIn likewise for s[j] outside chars.
FirstIn(s, i, chars) ==
  CHOOSE j \in i..(Len(s) + 1) :
    /\ j <= Len(s) => s[j] \in chars
    /\ \A k \in i..(j - 1) : s[k] \notin chars
FirstNotIn(s, i, chars) ==
  CHOOSE j \in i..(Len(s) + 1) :
    /\ j <= Len(s) => s[j] \notin chars
    /\ \A k \in i..(j - 1) : s[k] \in chars

\* The first index j >= i where pat starts in s, Len(s) + 1 when there is none.
FirstMatch(s, i, pat) ==
  CHOOSE j \in i..(Len(s) + 1) :
    /\ j <= Len(s) => StartsWith(s, j, pat)
    /\ \A k \in i..(j - 1) : ~StartsWith(s, k, pat)

\* The concatenation of a sequence of sequences.
RECURSIVE Concat(_)
Concat(parts) ==
  IF Len(parts) = 0 THEN <<>>
  ELSE IF Len(parts) = 1 THEN parts[1]
  ELSE Concat(SubSeq(parts, 1, Len(parts) \div 2))
       \o Concat(SubSeq(parts, Len(parts) \div 2 + 1, Len(parts)))

(***************************************************************************)
(* Python values                                                           *)
(***************************************************************************)
PyDict(pairs) == [t |-> "dict", v |-> pairs]
PyList(items) == [t |-> "list", v |-> items]
PyStr(s) == [t |-> "str", v |-> s]
PyInt(n) == [t |-> "int", v |-> n]
PyFloat(lexeme) == [t |-> "float", v |-> lexeme]
PyBool(b) == [t |-> "bool", v |-> b]
PyNone == [t |-> "NoneType", v |-> 0]

\* isinstance(value, dict), isinstance(value, str)
IsDictTruthy(value) == value.t = "dict" /\ Len(value.v) > 0
IsDict(value) == value.t = "dict"
IsStr(value) == value.t = "str"

\* d[key] = val on an insertion-ordered dict: an existing key keeps its place.
DictSet(pairs, key, val) ==
  IF \E i \in 1..Len(pairs) : pairs[i].k = key
  THEN [i \in 1..Len(pairs) |->
          IF pairs[i].k = key THEN [k |-> key, v |-> val] ELSE pairs[i]]
  ELSE Append(pairs, [k |-> key, v |-> val])

\* Python == on values: dicts compare as mappings (order-free), lists
\* element-wise, the rest by type and payload.
RECURSIVE PyEq(_, _)
PyEq(a, b) ==
  /\ a.t = b.t
  /\ IF a.t = "dict"
     THEN /\ Len(a.v) = Len(b.v)
          /\ \A i \in 1..Len(a.v) : \E j \in 1..Len(b.v) :
                /\ a.v[i].k = b.v[j].k
                /\ PyEq(a.v[i].v, b.v[j].v)
     ELSE IF a.t = "list"
     THEN /\ Len(a.v) = Len(b.v)
          /\ \A i \in 1..Len(a.v) : PyEq(a.v[i], b.v[i])
     ELSE a.v = b.v

(***************************************************************************)
(* json.loads (CPython json.decoder / _json scanner, default strict mode) *)
(***************************************************************************)
\* A scan result: the value read and the index after it, or a failure.
Ok(val, end) == [ok |-> TRUE, val |-> val, end |-> end]
Bad == [ok |-> FALSE, val |-> PyNone, end |-> 0]

\* JSON whitespace (decoder.WHITESPACE = [ \t\n\r]*)
JsonWs == {SPACE, TAB, LF, CR}

\* The first index >= i of s that holds no JSON whitespace.
SkipWs(s, i) == FirstNotIn(s, i, JsonWs)

\* The first index >= i of s that holds no digit.
Digits == DIGIT_0..DIGIT_9
SkipDigits(s, i) == FirstNotIn(s, i, Digits)

\* The value of the four hex digits s[i..i+3], or -1.
Hex4(s, i) ==
  IF i + 3 > Len(s) \/ \E j \in 0..3 : HexVal(s[i + j]) < 0
  THEN -1
  ELSE 4096 * HexVal(s[i]) + 256 * HexVal(s[i + 1])
       + 16 * HexVal(s[i + 2]) + HexVal(s[i + 3])

\* decoder.BACKSLASH: the character a one-letter escape stands for, or -1.
Unescape(e) ==
  IF e = QUOTE THEN QUOTE
  ELSE IF e = BACKSLASH THEN BACKSLASH
  ELSE IF e = SLASH THEN SLASH
  ELSE IF e = LOWER_b THEN 8
  ELSE IF e = LOWER_f THEN 12
  ELSE IF e = LOWER_n THEN LF
  ELSE IF e = LOWER_r THEN CR
  ELSE IF e = LOWER_t THEN TAB
  ELSE -1

IsHighSurrogate(c) == c >= 55296 /\ c <= 56319
IsLowSurrogate(c) == c >= 56320 /\ c <= 57343

\* The characters that end a run of plain string characters: the closing
\* quote, a backslash, and (strict mode) a control character.
EndsRun == {QUOTE, BACKSLASH} \cup (0..31)

\* scanstring: s[i] is the next character of the string (the first one
\* follows the opening quote), acc the characters decoded so far.
RECURSIVE ScanString(_, _, _)

\* After \uXXXX = u, a high surrogate, at s[j] comes \uXXXX = u2: a low
\* surrogate joins it, anything else leaves u alone.
ScanSurrogate(s, j, run, u, u2) ==
  IF u2 < 0 THEN Bad
  ELSE IF IsLowSurrogate(u2)
  THEN ScanString(s, j + 12, Append(run, 65536 + (u - 55296) * 1024 + (u2 - 56320)))
  ELSE ScanString(s, j + 6, Append(run, u))

\* The escape \uXXXX at s[j], its four digits worth u.
ScanUnicode(s, j, run, u) ==
  IF u < 0 THEN Bad
  ELSE IF IsHighSurrogate(u) /\ StartsWith(s, j + 6, <<BACKSLASH, LOWER_u>>)
  THEN ScanSurrogate(s, j, run, u, Hex4(s, j + 8))
  ELSE ScanString(s, j + 6, Append(run, u))

\* The backslash at s[j].
ScanEscape(s, j, run) ==
  IF j + 1 > Len(s) THEN Bad
  ELSE IF s[j + 1] = LOWER_u THEN ScanUnicode(s, j, run, Hex4(s, j + 2))
  ELSE IF Unescape(s[j + 1]) < 0 THEN Bad
  ELSE ScanString(s, j + 2, Append(run, Unescape(s[j + 1])))

\* s[j] ends a run of plain characters, run being the string up to it.
ScanRunEnd(s, j, run) ==
  IF j > Len(s) THEN Bad
  ELSE IF s[j] = QUOTE THEN Ok(PyStr(run), j + 1)
  ELSE IF s[j] # BACKSLASH THEN Bad
  ELSE ScanEscape(s, j, run)

ScanRun(s, i, acc, j) == ScanRunEnd(s, j, acc \o SubSeq(s, i, j - 1))
ScanString(s, i, acc) == ScanRun(s, i, acc, FirstIn(s, i, EndsRun))

\* int() of the digits s[i..j-1]
RECURSIVE DigitsValue(_, _, _)
DigitsValue(s, i, j) ==
  IF j <= i THEN 0
  ELSE 10 * DigitsValue(s, i, j - 1) + (s[j - 1] - DIGIT_0)

\* _match_number: -?(0|[1-9]\d*)(\.\d+)?([eE][-+]?\d+)? at s[i]. The integer
\* part is s[d0..d1-1], the fraction ends before f1, the exponent before e1.
IntEnd(s, d0) == IF s[d0] = DIGIT_0 THEN d0 + 1 ELSE SkipDigits(s, d0 + 1)
FracEnd(s, d1) ==
  IF d1 + 1 <= Len(s) /\ s[d1] = DOT /\ IsDigit(s[d1 + 1])
  THEN SkipDigits(s, d1 + 1)
  ELSE d1
ExpDigits(s, f1) ==
  IF f1 + 1 <= Len(s) /\ s[f1 + 1] \in {PLUS, MINUS} THEN f1 + 2 ELSE f1 + 1
ExpEndFrom(s, f1, e0) ==
  IF /\ f1 <= Len(s) /\ s[f1] \in {LOWER_e, UPPER_E}
     /\ e0 <= Len(s) /\ IsDigit(s[e0])
  THEN SkipDigits(s, e0)
  ELSE f1
ExpEnd(s, f1) == ExpEndFrom(s, f1, ExpDigits(s, f1))
NumberAt(s, i, d0, d1, f1, e1) ==
  IF f1 > d1 \/ e1 > f1
  THEN Ok(PyFloat(SubSeq(s, i, e1 - 1)), e1)
  ELSE Ok(PyInt((IF d0 > i THEN -1 ELSE 1) * DigitsValue(s, d0, d1)), d1)
MatchFrac(s, i, d0, d1, f1) == NumberAt(s, i, d0, d1, f1, ExpEnd(s, f1))
MatchInt(s, i, d0, d1) == MatchFrac(s, i, d0, d1, FracEnd(s, d1))
MatchDigits(s, i, d0) ==
  IF d0 > Len(s) \/ ~IsDigit(s[d0]) THEN Bad
  ELSE MatchInt(s, i, d0, IntEnd(s, d0))
MatchNumber(s, i) ==
  MatchDigits(s, i, IF i <= Len(s) /\ s[i] = MINUS THEN i + 1 ELSE i)

\* The literals: null, true, false, NaN, Infinity, -Infinity
NullText == <<110, 117, 108, 108>>
TrueText == <<116, 114, 117, 101>>
FalseText == <<102, 97, 108, 115, 101>>
NaNText == <<78, 97, 78>>
InfinityText == <<73, 110, 102, 105, 110, 105, 116, 121>>
MinusInfinityText == <<45, 73, 110, 102, 105, 110, 105, 116, 121>>

\* scan_once: the value that starts at s[i]. ParseObject and ParseArray read
\* the members after the opening bracket, pairs/items being those read so far.
RECURSIVE ScanOnce(_, _)
RECURSIVE ParseObject(_, _, _)
RECURSIVE ParseArray(_, _, _)

\* After a member of an object, at s[next]: the end or a comma.
ObjectNext(s, now, next) ==
  IF next > Len(s) THEN Bad
  ELSE IF s[next] = RBRACE THEN Ok(PyDict(now), next + 1)
  ELSE IF s[next] = COMMA THEN ParseObject(s, SkipWs(s, next + 1), now)
  ELSE Bad

\* The member's value val was read: pairs[name] = val.
ObjectValue(s, pairs, name, val) ==
  IF ~val.ok THEN Bad
  ELSE ObjectNext(s, DictSet(pairs, name, val.val), SkipWs(s, val.end))

\* The member's name was read, a colon is due at s[colon].
ObjectColon(s, pairs, name, colon) ==
  IF colon > Len(s) \/ s[colon] # COLON THEN Bad
  ELSE ObjectValue(s, pairs, name, ScanOnce(s, SkipWs(s, colon + 1)))

ObjectKey(s, pairs, key) ==
  IF ~key.ok THEN Bad
  ELSE ObjectColon(s, pairs, key.val.v, SkipWs(s, key.end))

ParseObject(s, i, pairs) ==
  IF i > Len(s) \/ s[i] # QUOTE THEN Bad
  ELSE ObjectKey(s, pairs, ScanString(s, i + 1, <<>>))

\* After an item of an array, at s[next]: the end or a comma.
ArrayNext(s, now, next) ==
  IF next > Len(s) THEN Bad
  ELSE IF s[next] = RBRACKET THEN Ok(PyList(now), next + 1)
  ELSE IF s[next] = COMMA THEN ParseArray(s, SkipWs(s, next + 1), now)
  ELSE Bad

ArrayValue(s, items, val) ==
  IF ~val.ok THEN Bad
  ELSE ArrayNext(s, Append(items, val.val), SkipWs(s, val.end))

ParseArray(s, i, items) == ArrayValue(s, items, ScanOnce(s, i))

\* After the opening bracket, at s[j]: an empty object or array, or members.
ObjectOpen(s, j) ==
  IF j <= Len(s) /\ s[j] = RBRACE THEN Ok(PyDict(<<>>), j + 1)
  ELSE ParseObject(s, j, <<>>)
ArrayOpen(s, j) ==
  IF j <= Len(s) /\ s[j] = RBRACKET THEN Ok(PyList(<<>>), j + 1)
  ELSE ParseArray(s, j, <<>>)

ScanOnce(s, i) ==
  IF i > Len(s) THEN Bad
  ELSE IF s[i] = QUOTE THEN ScanString(s, i + 1, <<>>)
  ELSE IF s[i] = LBRACE THEN ObjectOpen(s, SkipWs(s, i + 1))
  ELSE IF s[i] = LBRACKET THEN ArrayOpen(s, SkipWs(s, i + 1))
  ELSE IF StartsWith(s, i, NullText) THEN Ok(PyNone, i + 4)
  ELSE IF StartsWith(s, i, TrueText) THEN Ok(PyBool(TRUE), i + 4)
  ELSE IF StartsWith(s, i, FalseText) THEN Ok(PyBool(FALSE), i + 5)
  ELSE IF StartsWith(s, i, NaNText)
    THEN Ok(PyFloat(SubSeq(s, i, i + 2)), i + 3)
  ELSE IF StartsWith(s, i, InfinityText)
    THEN Ok(PyFloat(SubSeq(s, i, i + 7)), i + 8)
  ELSE IF StartsWith(s, i, MinusInfinityText)
    THEN Ok(PyFloat(SubSeq(s, i, i + 8)), i + 9)
  ELSE MatchNumber(s, i)

\* The outcome of a conversion: the value, or the class of the exception.
Done(val) == [ok |-> TRUE, val |-> val, err |-> "none"]
Fail(err) == [ok |-> FALSE, val |-> PyNone, err |-> err]

\* The document r was read: only whitespace may follow it ("Extra data").
Document(s, r) ==
  IF r.ok /\ SkipWs(s, r.end) = Len(s) + 1
  THEN Done(r.val)
  ELSE Fail("JSONDecodeError")

\* json.loads(s) for a str s: a leading BOM is refused, the document may be
\* surrounded by whitespace.
JsonLoads(s) ==
  IF Len(s) > 0 /\ s[1] = 65279 THEN Fail("JSONDecodeError")
  ELSE Document(s, ScanOnce(s, SkipWs(s, 1)))

(***************************************************************************)
(* json.dumps (default separators, ensure_ascii=True)                      *)
(***************************************************************************)
\* '\\u{0:04x}'.format(n)
UEscape(n) ==
  << BACKSLASH, LOWER_u, HexDigit(n \div 4096), HexDigit((n \div 256) % 16),
     HexDigit((n \div 16) % 16), HexDigit(n % 16) >>

\* encoder.encode_basestring_ascii, one character
EscapeChar(c) ==
  IF c = QUOTE THEN <<BACKSLASH, QUOTE>>
  ELSE IF c = BACKSLASH THEN <<BACKSLASH, BACKSLASH>>
  ELSE IF c = LF THEN <<BACKSLASH, LOWER_n>>
  ELSE IF c = CR THEN <<BACKSLASH, LOWER_r>>
  ELSE IF c = TAB THEN <<BACKSLASH, LOWER_t>>
  ELSE IF c = 8 THEN <<BACKSLASH, LOWER_b>>
  ELSE IF c = 12 THEN <<BACKSLASH, LOWER_f>>
  ELSE IF c >= SPACE /\ c <= TILDE THEN <<c>>
  ELSE IF c < 65536 THEN UEscape(c)
  ELSE UEscape(55296 + ((c - 65536) \div 1024))
       \o UEscape(56320 + ((c - 65536) % 1024))

EncodeString(s) ==
  <<QUOTE>> \o Concat([i \in 1..Len(s) |-> EscapeChar(s[i])]) \o <<QUOTE>>

\* str(n) for an int n
RECURSIVE IntText(_)
IntText(n) ==
  IF n < 0 THEN <<MINUS>> \o IntText(0 - n)
  ELSE IF n < 10 THEN <<DIGIT_0 + n>>
  ELSE Append(IntText(n \div 10), DIGIT_0 + (n % 10))

\* ', '.join(parts)
RECURSIVE JoinComma(_)
JoinComma(parts) ==
  IF parts = <<>> THEN <<>>
  ELSE IF Len(parts) = 1 THEN parts[1]
  ELSE parts[1] \o <<COMMA, SPACE>> \o JoinComma(Tail(parts))

\* json.dumps(val); a float is written as the lexeme it was read from.
RECURSIVE JsonDumps(_)
JsonDumps(val) ==
  IF val.t = "dict"
  THEN <<LBRACE>>
       \o JoinComma([i \in 1..Len(val.v) |->
            EncodeString(val.v[i].k) \o <<COLON, SPACE>> \o JsonDumps(val.v[i].v)])
       \o <<RBRACE>>
  ELSE IF val.t = "list"
  THEN <<LBRACKET>> \o JoinComma([i \in 1..Len(val.v) |-> JsonDumps(val.v[i])])
       \o <<RBRACKET>>
  ELSE IF val.t = "str" THEN EncodeString(val.v)
  ELSE IF val.t = "int" THEN IntText(val.v)
  ELSE IF val.t = "bool"
  THEN (IF val.v THEN TrueText ELSE FalseText)
  ELSE IF val.t = "NoneType" THEN NullText
  ELSE val.v

(***************************************************************************)
(* str methods                                                             *)
(***************************************************************************)
\* s.replace(old, new): every non-overlapping occurrence, left to right
\* (old is not empty).
RECURSIVE ReplaceFrom(_, _, _, _)
ReplaceFrom(s, i, old, new) ==
  LET j == FirstMatch(s, i, old) IN
  IF j > Len(s) THEN SubSeq(s, i, Len(s))
  ELSE SubSeq(s, i, j - 1) \o new \o ReplaceFrom(s, j + Len(old), old, new)
Replace(s, old, new) == ReplaceFrom(s, 1, old, new)

\* str.isspace() of one character (Py_UNICODE_ISSPACE)
SpaceChars ==
  (9..13) \cup (28..32) \cup {133, 160, 5760, 8232, 8233, 8239, 8287, 12288}
    \cup (8192..8202)

\* s with its trailing characters that are in chars removed
RStripIn(s, chars) ==
  LET keep == CHOOSE n \in 0..Len(s) :
                /\ n > 0 => s[n] \notin chars
                /\ \A k \in (n + 1)..Len(s) : s[k] \in chars
  IN SubSeq(s, 1, keep)

\* s.strip()
LStrip(s) == SubSeq(s, FirstNotIn(s, 1, SpaceChars), Len(s))
RStrip(s) == RStripIn(s, SpaceChars)
Strip(s) == RStrip(LStrip(s))

\* s.rstrip('=')
RStripEquals(s) == RStripIn(s, {EQUALS})

\* c * n
Repeat(c, n) == [i \in 1..n |-> c]

(***************************************************************************)
(* UTF-8                                                                   *)
(***************************************************************************)
IsCont(b) == b >= 128 /\ b <= 191

\* bytes.decode('utf-8'), strict: the code points, or UnicodeDecodeError on
\* a stray or missing continuation byte, an overlong form, a surrogate or a
\* code point above U+10FFFF. b[i] is the next byte, acc the text so far.
AsciiBytes == 0..127

\* The first continuation byte after the lead byte b[j] is acceptable.
FirstContOk(b, j) ==
  /\ IsCont(b[j + 1])
  /\ (b[j] = 224 => b[j + 1] >= 160)
  /\ (b[j] = 237 => b[j + 1] <= 159)
  /\ (b[j] = 240 => b[j + 1] >= 144)
  /\ (b[j] = 244 => b[j + 1] <= 143)

\* str(UnicodeDecodeError) reads "can't decode byte 0xNN in position p" when
\* the rejected range is one byte long (an invalid start byte, a bad first
\* continuation, a lead byte that ends the data) and "can't decode bytes in
\* position p-q" otherwise: the bytes of the data that the text quotes.
Utf8Quoted(b, j) ==
  IF b[j] < 194 \/ b[j] > 244 \/ j + 1 > Len(b) \/ ~FirstContOk(b, j)
  THEN <<b[j]>>
  ELSE <<>>
Utf8BadAt(b, j) ==
  [ok |-> FALSE, val |-> <<>>, err |-> "UnicodeDecodeError", quoted |-> Utf8Quoted(b, j)]
RECURSIVE Utf8Scan(_, _, _)

\* b[j] is the first byte at or after the scan's start that is not ASCII,
\* run the text before it.
Utf8Lead(b, j, run) ==
  IF j > Len(b) THEN [ok |-> TRUE, val |-> run, err |-> "none"]
  ELSE IF b[j] >= 194 /\ b[j] <= 223 THEN
    IF j + 1 <= Len(b) /\ IsCont(b[j + 1])
    THEN Utf8Scan(b, j + 2, Append(run, (b[j] - 192) * 64 + (b[j + 1] - 128)))
    ELSE Utf8BadAt(b, j)
  ELSE IF b[j] >= 224 /\ b[j] <= 239 THEN
    IF /\ j + 2 <= Len(b) /\ IsCont(b[j + 1]) /\ IsCont(b[j + 2])
       /\ (b[j] = 224 => b[j + 1] >= 160)
       /\ (b[j] = 237 => b[j + 1] <= 159)
    THEN Utf8Scan(b, j + 3,
           Append(run, (b[j] - 224) * 4096 + (b[j + 1] - 128) * 64 + (b[j + 2] - 128)))
    ELSE Utf8BadAt(b, j)
  ELSE IF b[j] >= 240 /\ b[j] <= 244 THEN
    IF /\ j + 3 <= Len(b) /\ IsCont(b[j + 1]) /\ IsCont(b[j + 2]) /\ IsCont(b[j + 3])
       /\ (b[j] = 240 => b[j + 1] >= 144)
       /\ (b[j] = 244 => b[j + 1] <= 143)
    THEN Utf8Scan(b, j + 4,
           Append(run, (b[j] - 240) * 262144 + (b[j + 1] - 128) * 4096
                       + (b[j + 2] - 128) * 64 + (b[j + 3] - 128)))
    ELSE Utf8BadAt(b, j)
  ELSE Utf8BadAt(b, j)

Utf8Run(b, i, acc, j) == Utf8Lead(b, j, acc \o SubSeq(b, i, j - 1))
Utf8Scan(b, i, acc) == Utf8Run(b, i, acc, FirstNotIn(b, i, AsciiBytes))

Utf8Decode(b) == Utf8Scan(b, 1, <<>>)

\* str.encode('utf-8'), one code point (a surrogate cannot be encoded; the
\* texts encoded here hold none)
Utf8Char(c) ==
  IF c < 128 THEN <<c>>
  ELSE IF c < 2048 THEN <<192 + (c \div 64), 128 + (c % 64)>>
  ELSE IF c < 65536
  THEN <<224 + (c \div 4096), 128 + ((c \div 64) % 64), 128 + (c % 64)>>
  ELSE <<240 + (c \div 262144), 128 + ((c \div 4096) % 64),
         128 + ((c \div 64) % 64), 128 + (c % 64)>>

Utf8Encode(s) == Concat([i \in 1..Len(s) |-> Utf8Char(s[i])])

(***************************************************************************)
(* base64 (base64.b64encode, base64.b64decode with validate=False)         *)
(***************************************************************************)
\* The value of a base64 digit, or -1 for a character outside the alphabet.
B64Index(c) ==
  IF c >= UPPER_A /\ c <= UPPER_Z THEN c - UPPER_A
  ELSE IF c >= LOWER_a /\ c <= LOWER_z THEN c - LOWER_a + 26
  ELSE IF IsDigit(c) THEN c - DIGIT_0 + 52
  ELSE IF c = PLUS THEN 62
  ELSE IF c = SLASH THEN 63
  ELSE -1

\* The base64 digit of a value 0..63.
B64Char(v) ==
  IF v < 26 THEN UPPER_A + v
  ELSE IF v < 52 THEN LOWER_a + (v - 26)
  ELSE IF v < 62 THEN DIGIT_0 + (v - 52)
  ELSE IF v = 62 THEN PLUS
  ELSE SLASH

\* base64.b64encode(b).decode('utf-8'): the k-th digit is cut from the three
\* bytes of its group, a missing byte counting as 0 and the digits that hold
\* no data written as '='.
B64Encode(b) ==
  LET byte(j) == IF j <= Len(b) THEN b[j] ELSE 0
      digit(k) ==
        LET g == 3 * ((k - 1) \div 4)
            r == (k - 1) % 4
        IN
        IF r = 0 THEN B64Char(byte(g + 1) \div 4)
        ELSE IF r = 1 THEN B64Char((byte(g + 1) % 4) * 16 + (byte(g + 2) \div 16))
        ELSE IF r = 2
        THEN (IF g + 2 > Len(b) THEN EQUALS
              ELSE B64Char((byte(g + 2) % 16) * 4 + (byte(g + 3) \div 64)))
        ELSE (IF g + 3 > Len(b) THEN EQUALS ELSE B64Char(byte(g + 3) % 64))
  IN [k \in 1..(4 * ((Len(b) + 2) \div 3)) |-> digit(k)]

\* binascii.a2b_base64, not strict. The loop over the characters keeps
\* quad_pos (digits read of the current quad) and pads ('=' seen since the
\* last digit): a character outside the alphabet is skipped; a '=' ends the
\* data when quad_pos >= 2 and quad_pos + pads >= 4, and is skipped
\* otherwise; each digit after the first of a quad writes a byte. Data that
\* ends inside a quad without such a '=' is an error.
IsData(s, p) == B64Index(s[p]) >= 0
QuadPos(s, p) == Cardinality({q \in 1..(p - 1) : IsData(s, q)}) % 4
Pads(s, p) ==
  Cardinality({q \in 1..p : s[q] = EQUALS /\ \A r \in q..p : ~IsData(s, r)})
EndsQuad(quadPos, pads) == quadPos >= 2 /\ quadPos + pads >= 4
EndsData(s, p) == s[p] = EQUALS /\ EndsQuad(QuadPos(s, p), Pads(s, p))

\* The index of the '=' that ends the data, Len(s) + 1 when none does.
DataEnd(s) ==
  CHOOSE p \in 1..(Len(s) + 1) :
    /\ p <= Len(s) => EndsData(s, p)
    /\ \A q \in 1..(p - 1) : ~EndsData(s, q)

\* The values of the digits of s before index stop.
DigitValues(digits) == [k \in 1..Len(digits) |-> B64Index(digits[k])]
B64Digits(s, stop) ==
  DigitValues(SelectSeq(SubSeq(s, 1, stop - 1), LAMBDA c : B64Index(c) >= 0))

\* The bytes that the digit values d spell, a last quad of 2 or 3 digits
\* giving 1 or 2 bytes.
B64Bytes(d) ==
  [j \in 1..(3 * (Len(d) \div 4) + (IF Len(d) % 4 = 0 THEN 0 ELSE (Len(d) % 4) - 1)) |->
     IF (j - 1) % 3 = 0
     THEN d[4 * ((j - 1) \div 3) + 1] * 4 + (d[4 * ((j - 1) \div 3) + 2] \div 16)
     ELSE IF (j - 1) % 3 = 1
     THEN (d[4 * ((j - 1) \div 3) + 2] % 16) * 16 + (d[4 * ((j - 1) \div 3) + 3] \div 4)
     ELSE (d[4 * ((j - 1) \div 3) + 3] % 4) * 64 + d[4 * ((j - 1) \div 3) + 4]]

A2bDigits(ended, d) ==
  IF ~ended /\ Len(d) % 4 # 0
  THEN [ok |-> FALSE, val |-> <<>>, err |-> "binascii.Error"]
  ELSE [ok |-> TRUE, val |-> B64Bytes(d), err |-> "none"]
A2bUpTo(s, stop) == A2bDigits(stop <= Len(s), B64Digits(s, stop))
A2bBase64(s) == A2bUpTo(s, DataEnd(s))

\* base64.b64decode(s) for a str s: s.encode('ascii') raises ValueError on a
\* character above 127; then a2b_base64.
B64Decode(s) ==
  IF \E i \in 1..Len(s) : s[i] > 127
  THEN [ok |-> FALSE, val |-> <<>>, err |-> "ValueError"]
  ELSE A2bBase64(s)

(***************************************************************************)
(* normalize_service_account_json: the pieces of its strategy chain        *)
(***************************************************************************)
\* value.replace('\\n', '\n')
BackslashN == <<BACKSLASH, LOWER_n>>
EscapedNewlinesFix(text) == Replace(text, BackslashN, <<LF>>)

\* Strategy 1: json.loads(value)
RawJsonAttemptAfterFix(text) == JsonLoads(EscapedNewlinesFix(text))
RawJsonAttempt(text) == JsonLoads(text)

\* Strategy 2: json.loads of the text with its escaped newlines replaced
EscapedNewlinesAttempt(text) == JsonLoads(EscapedNewlinesFix(text))

\* Strategy 3, cleanup: value.strip().replace('\r', '').replace('\n', '')
Base64CleanupStripsOnly(text) == Strip(text)
Base64Cleanup(text) == Replace(Replace(Strip(text), <<CR>>, <<>>), <<LF>>, <<>>)

\* json.loads(base64.b64decode(candidate).decode('utf-8')); b64ok tells
\* whether b64decode itself succeeded.
\* quoted: the bytes of the decoded data that the text of the exception
\* quotes (only a UnicodeDecodeError quotes any).
Base64JsonAttemptUndecoded(candidate) ==
  [b64ok |-> B64Decode(candidate).ok, quoted |-> <<>>] @@ JsonLoads(candidate)
DecodedText(txt) ==
  IF ~txt.ok THEN [quoted |-> txt.quoted] @@ Fail(txt.err)
  ELSE [quoted |-> <<>>] @@ JsonLoads(txt.val)
DecodedBytes(raw) ==
  IF ~raw.ok THEN [b64ok |-> FALSE, quoted |-> <<>>] @@ Fail(raw.err)
  ELSE [b64ok |-> TRUE] @@ DecodedText(Utf8Decode(raw.val))
Base64JsonAttempt(candidate) == DecodedBytes(B64Decode(candidate))

\* pad_needed = (-len(candidate)) % 4
PadNeededOffByOne(candidate) == (1 - Len(candidate)) % 4
PadNeeded(candidate) == (0 - Len(candidate)) % 4

\* candidate2: candidate with the missing '=' appended
PadFixUnused(candidate) == candidate
PadFix(candidate) ==
  IF PadNeeded(candidate) # 0
  THEN candidate \o Repeat(EQUALS, PadNeeded(candidate))
  ELSE candidate

\* The two ValueErrors the function raises itself.
InvalidTypeError ==
  [cls |-> "ValueError", msg |-> "deve ser dict ou string JSON/base64"]
AllFailedError ==
  [cls |-> "ValueError",
   msg |-> "nao contem JSON valido. Tentadas: raw JSON, escaped-newlines e base64."]
NoError == [cls |-> "none", msg |-> ""]

Pending == [status |-> "pending", val |-> PyNone, exc |-> NoError]
Returned(val) == [status |-> "returned", val |-> val, exc |-> NoError]
Raised(exc) == [status |-> "raised", val |-> PyNone, exc |-> exc]

\* The text of an exception: its class stands for the fixed words and the
\* positions and counts of its message, quoted are the data bytes it shows.
ExcText(cls, quoted) == [cls |-> cls, quoted |-> quoted]
NoExcText == ExcText("none", <<>>)

\* A log record: logger.debug / logger.info with a message, the text of the
\* exception a "%s" formats (NoExcText without one) and the number a "%d"
\* formats (-1 without one).
LogRec(level, msg, exc, num) ==
  [level |-> level, msg |-> msg, exc |-> exc, num |-> num]
Debug(msg) == LogRec("DEBUG", msg, NoExcText, -1)

\* The strategies in the order of the source, and what each yields on a text.
StrategyOrder == <<"raw", "escaped", "base64", "padfix">>
StrategyResult(name, text) ==
  IF name = "raw" THEN RawJsonAttempt(text)
  ELSE IF name = "escaped" THEN EscapedNewlinesAttempt(text)
  ELSE IF name = "base64" THEN Base64JsonAttempt(Base64Cleanup(text))
  ELSE Base64JsonAttempt(PadFix(Base64Cleanup(text)))
AllStrategiesFail(text) ==
  \A i \in 1..Len(StrategyOrder) : ~StrategyResult(StrategyOrder[i], text).ok

\* What one call yields when nothing else runs: lines 25-81 read from top
\* to bottom, the first strategy that does not raise giving the result.
FirstOk(results) ==
  CHOOSE i \in 1..Len(results) :
    results[i].ok /\ \A j \in 1..(i - 1) : ~results[j].ok
OutcomeOf(results) ==
  IF \E i \in 1..Len(results) : results[i].ok
  THEN Returned(results[FirstOk(results)].val)
  ELSE Raised(AllFailedError)
StrategyResults(text) ==
  [i \in 1..Len(StrategyOrder) |-> StrategyResult(StrategyOrder[i], text)]
NormalizeOutcome(v) ==
  IF IsDict(v) THEN Returned(v)
  ELSE IF ~IsStr(v) THEN Raised(InvalidTypeError)
  ELSE OutcomeOf(StrategyResults(v.v))

(***************************************************************************)
(* Inputs                                                                  *)
(***************************************************************************)
MaxValLen == 2
MaxTextLen == 3

\* All texts over an alphabet of at most n characters.
TextsUpTo(alphabet, n) == UNION {[1..k -> alphabet] : k \in 0..n}

\* Field values of the sample credentials: like the private_key of
\* tests/test_google_service_utils.py they hold newlines, and also
\* backslashes, the letter n and quotes.
ValAlphabet == {LF, BACKSLASH, LOWER_n, QUOTE}
Values == TextsUpTo(ValAlphabet, MaxValLen)
KeyNames == <<Text(<<"k">>), Text(<<"t">>)>>

\* The valid credential mappings: str keys, str values. The last ones hold
\* a non-ASCII letter, a tab and a carriage return, a character outside
\* the BMP, and the words of an escape and of a literal.
Samples ==
  {PyDict(<<>>)}
  \cup {PyDict(<<[k |-> KeyNames[1], v |-> PyStr(a)]>>) : a \in Values}
  \cup {PyDict(<<[k |-> KeyNames[1], v |-> PyStr(a)],
                 [k |-> KeyNames[2], v |-> PyStr(b)]>>) : a \in Values, b \in Values}
  \cup {PyDict(<<[k |-> KeyNames[2], v |-> PyStr(a)]>>) :
          a \in { <<233>>, <<TAB, CR, SPACE>>, <<128512, LF>>,
                  <<BACKSLASH, LOWER_u, DIGIT_0>>, NullText }}

\* Mappings that are no credential: other value types, nesting.
OtherDicts ==
  { PyDict(<<[k |-> KeyNames[1], v |-> PyInt(1)]>>),
    PyDict(<<[k |-> KeyNames[1], v |-> PyNone],
             [k |-> KeyNames[2], v |-> PyList(<<PyBool(TRUE)>>)]>>),
    PyDict(<<[k |-> KeyNames[2], v |-> PyDict(<<[k |-> KeyNames[1], v |-> PyStr(<<>>)]>>)]>>) }

\* Arbitrary short texts, and longer ones worth trying.
TextAlphabet ==
  { LBRACE, RBRACE, QUOTE, Ord("1"), BACKSLASH, LOWER_n, LF,
    LOWER_e, Ord("3"), DIGIT_0, EQUALS, Ord("M") }
Probes ==
  { Text(<<"n", "o", "t", "-", "a", "-", "v", "a", "l", "i", "d", "-", "b", "a", "s",
           "e", "6", "4", "-", "o", "r", "-", "j", "s", "o", "n">>),
    Text(<<"e", "3", "0", "=">>),
    Text(<<"e", "3", "0", "=", "z", "z">>),
    Text(<<" ", "e", "3", "\n", "0", " ">>),
    Text(<<"{", "}", "\\", "n">>),
    Text(<<"{", "\\", "n", "}">>),
    Text(<<"W", "z", "F", "d">>),
    Text(<<"b", "n", "V", "s", "b", "A">>),
    Text(<<"I", "n", "t", "=">>),
    Text(<<"[", "1", ",", " ", "1", "]">>),
    Text(<<"[", "]">>),
    Text(<<" ", "[", "1", "]", "\r">>),
    Text(<<"M", "Q", "=", "=">>),
    Text(<<"4", "2">>),
    Text(<<"n", "u", "l", "l">>),
    Text(<<"{", "dquote", "k", "dquote", ":", "1", "}">>),
    <<233>>, <<65279, LBRACE, RBRACE>> }
Texts == TextsUpTo(TextAlphabet, MaxTextLen) \cup Probes

\* Values that are neither dict nor str: normalize(42), normalize(None).
OtherValues == {PyInt(42), PyNone}

\* How a test turns a sample into the argument of the call:
\*   "dict"          sample
\*   "json"          json.dumps(sample)
\*   "escaped"       json.dumps(sample).replace('\n', '\\n')
\*   "base64"        base64.b64encode(json.dumps(sample).encode('utf-8')).decode('utf-8')
\*   "base64_nopad"  the same, .rstrip('=')
SampleForms == {"dict", "json", "escaped", "base64", "base64_nopad"}
Base64Text(sample) == B64Encode(Utf8Encode(JsonDumps(sample)))
Encode(form, sample) ==
  IF form = "dict" THEN sample
  ELSE IF form = "json" THEN PyStr(JsonDumps(sample))
  ELSE IF form = "escaped"
  THEN PyStr(Replace(JsonDumps(sample), <<LF>>, BackslashN))
  ELSE IF form = "base64" THEN PyStr(Base64Text(sample))
  ELSE PyStr(RStripEquals(Base64Text(sample)))

\* A base64 text as a secret store or a shell hands it over: whitespace
\* around it, and line breaks after the characters at the places at.
BreakAfter(text, at, sep) ==
  Concat([i \in 1..Len(text) |-> IF i \in at THEN <<text[i]>> \o sep ELSE <<text[i]>>])
LineBreaks == {<<LF>>, <<CR, LF>>}
BreakPlaces(n) ==
  {{}} \cup {{p} : p \in 1..(n - 1)}
       \cup {{p \in 1..(n - 1) : p % k = 0} : k \in {1, 4}}
Wraps ==
  { <<<<>>, <<>>>>,
    <<<<SPACE>>, <<SPACE, LF>>>>,
    <<<<CR, LF, TAB>>, <<>>>>,
    <<<<160, SPACE>>, <<LF, LF>>>> }
Wrapped(b) ==
  { w[1] \o BreakAfter(b, at, sep) \o w[2] :
      w \in Wraps, at \in BreakPlaces(Len(b)), sep \in LineBreaks }
WrapSamples ==
  { PyDict(<<>>),
    PyDict(<<[k |-> KeyNames[1], v |-> PyStr(<<LF>>)]>>),
    PyDict(<<[k |-> KeyNames[2], v |-> PyStr(<<233>>)]>>),
    PyDict(<<[k |-> KeyNames[1], v |-> PyStr(<<BACKSLASH, LOWER_n>>)],
             [k |-> KeyNames[2], v |-> PyStr(<<QUOTE>>)]>>) }

(***************************************************************************)
(* One call of normalize_service_account_json(value)                       *)
(***************************************************************************)
VARIABLES
  sample,     \* the test's mapping the argument was made from (PyNone: none)
  form,       \* how it was made: a SampleForms, "text" or "other"
  value,      \* the argument
  pc,         \* where the call is: "call", "escaped", "base64", "padfix",
              \* "failed", "done"
  tried,      \* the strategies attempted so far, in order
  candidate,  \* the local candidate (the cleaned text), once assigned
  candidate2, \* the local candidate2 (the text with its padding completed),
              \* once assigned
  outcome,    \* Pending, Returned(val) or Raised(exc)
  log,        \* the records logged so far (the module's logger: shared by
              \* all calls)
  parked      \* the frames (locals and position) of the calls of other
              \* threads, suspended while this one runs

\* logging_config.py: the root logger, and the calls of setup_logging made
\* so far.
VARIABLES
  handlers,   \* logging.getLogger().handlers
  rootLevel,  \* logging.getLogger().level
  setupCalls  \* one record per call of setup_logging, in order

loggingVars == <<handlers, rootLevel, setupCalls>>

\* google_service.py: the module-level singleton and what was asked of it.
VARIABLES
  environ,           \* os.environ: GOOGLE_SERVICE_ACCOUNT_JSON and _FILE
  disk,              \* what is at each path the constructor may look at
  service_instance,  \* _service_instance: NoInstance (None) or an instance
  constructed,       \* the latest GoogleSheetsService(...) construction
  served             \* one record per call of get_google_service, in order

serviceVars == <<environ, disk, service_instance, constructed, served>>

\* google_service.py: one call of list_spreadsheets(max_results).
VARIABLES
  max_results,  \* the argument
  all_files,    \* the number of files in all_files
  fetched,      \* fetched
  page_token,   \* page_token: "" for None, else the token of the next page
  requests,     \* the files().list requests answered with a page, in
                \* order (one repeated with the same answer appears once)
  listPc,       \* "idle", "loop", "request", "return", "done" or "raised"
  listed,       \* the number of files in the list returned, -1 before
  thrown,       \* what files().list(...).execute() threw, if it did
  listRaised    \* what list_spreadsheets raised, if it did

listVars ==
  <<max_results, all_files, fetched, page_token, requests, listPc, listed,
    thrown, listRaised>>

\* No exception of the Drive client or of list_spreadsheets.
NoDriveError == [cls |-> "none", status |-> 0]

\* google_service.py: one call of get_form_responses.
VARIABLES
  values,            \* values, once read: the rows of the value range
  responses,         \* responses
  formPc,            \* "idle", "read", "rows", "done" or "raised"
  form_responses,    \* the list returned
  formRaised         \* what get_form_responses raised, if it did

formVars == <<values, responses, formPc, form_responses, formRaised>>

\* google_service.py: one call of auto_convert_tabular_files.
VARIABLES
  files,             \* files: what list_spreadsheets returned
  include_csv,       \* the arguments
  include_xls,
  max_conversions,
  sheet_names,       \* sheet_names
  converted,         \* converted
  skipped,           \* skipped
  scanned,           \* how many members of others the loop has taken
  conversions,       \* one record per call of convert_excel_to_google_sheet
  convertPc,         \* "idle", "scan", "done" or "raised"
  convert_result     \* the mapping returned

convertVars ==
  <<files, include_csv, include_xls, max_conversions, sheet_names, converted,
    skipped, scanned, conversions, convertPc, convert_result>>

sheetVars == <<formVars, convertVars>>

\* The state of the other modules, which no call of normalize touches.
elsewhere == <<loggingVars, serviceVars, listVars, sheetVars>>

\* What lies outside the frame of the running call and its logger.
outside == <<parked, elsewhere>>

\* No call of list_spreadsheets.
ListUntouched ==
  /\ max_results = 0
  /\ all_files = 0
  /\ fetched = 0
  /\ page_token = ""
  /\ requests = <<>>
  /\ listPc = "idle"
  /\ listed = -1
  /\ thrown = NoDriveError
  /\ listRaised = NoDriveError

\* No call of get_form_responses and none of auto_convert_tabular_files.
NoResult == [converted |-> -1, skipped |-> -1]
FormUntouched ==
  /\ values = <<>>
  /\ responses = <<>>
  /\ formPc = "idle"
  /\ form_responses = <<>>
  /\ formRaised = NoDriveError
ConvertUntouched ==
  /\ files = <<>>
  /\ include_csv = TRUE
  /\ include_xls = TRUE
  /\ max_conversions = 10
  /\ sheet_names = {}
  /\ converted = 0
  /\ skipped = 0
  /\ scanned = 0
  /\ conversions = <<>>
  /\ convertPc = "idle"
  /\ convert_result = NoResult
SheetsUntouched == FormUntouched /\ ConvertUntouched

\* Line 408 of google_service.py: no instance yet; nothing constructed.
NoInstance == [id |-> 0]
NotConstructed == [made |-> FALSE, serial |-> 0]
ServiceUntouched ==
  /\ environ = <<>>
  /\ disk = <<>>
  /\ service_instance = NoInstance
  /\ constructed = NotConstructed
  /\ served = <<>>

\* The root logger as logging creates it: no handler, level WARNING.
LoggingUntouched ==
  /\ handlers = <<>>
  /\ rootLevel = 30
  /\ setupCalls = <<>>

vars == <<sample, form, value, pc, tried, candidate, candidate2, outcome, log, outside>>

Init ==
  /\ \/ /\ form \in SampleForms
        /\ sample \in Samples
        /\ value = Encode(form, sample)
     \/ /\ form = "base64_wrapped"
        /\ sample \in WrapSamples
        /\ value \in {PyStr(t) : t \in Wrapped(Base64Text(sample))}
     \/ /\ form = "dict"
        /\ sample \in OtherDicts
        /\ value = sample
     \/ /\ form = "text"
        /\ sample = PyNone
        /\ value \in {PyStr(t) : t \in Texts}
     \/ /\ form = "other"
        /\ sample = PyNone
        /\ value \in OtherValues
  /\ pc = "call"
  /\ tried = <<>>
  /\ candidate = <<>>
  /\ candidate2 = <<>>
  /\ outcome = Pending
  /\ log = <<>>
  /\ parked = <<>>
  /\ LoggingUntouched
  /\ ServiceUntouched
  /\ ListUntouched
  /\ SheetsUntouched

\* Lines 25-27: a dict is returned as it is.
PassThrough ==
  /\ pc = "call"
  /\ IsDict(value)
  /\ log' = Append(log, Debug("input is already a dict"))
  /\ outcome' = Returned(value)
  /\ pc' = "done"
  /\ UNCHANGED <<outside, candidate2, sample, form, value, tried, candidate>>

\* Lines 29-30: neither dict nor str.
RejectTypeAfterRaw ==
  /\ pc = "call"
  /\ ~IsDict(value)
  /\ ~IsStr(value)
  /\ tried' = Append(tried, "raw")
  /\ log' = log \o <<Debug("trying raw json load"), Debug("raw json load failed")>>
  /\ outcome' = Raised(InvalidTypeError)
  /\ pc' = "done"
  /\ UNCHANGED <<outside, candidate2, sample, form, value, candidate>>
RejectType ==
  /\ pc = "call"
  /\ ~IsDict(value)
  /\ ~IsStr(value)
  /\ outcome' = Raised(InvalidTypeError)
  /\ pc' = "done"
  /\ UNCHANGED <<outside, candidate2, sample, form, value, tried, candidate, log>>

\* Lines 32-37: strategy 1; whatever json.loads returns is returned.
TryRawJsonNoReturn ==
  /\ pc = "call"
  /\ ~IsDict(value)
  /\ IsStr(value)
  /\ tried' = Append(tried, "raw")
  /\ pc' = "escaped"
  /\ log' = Append(log, Debug("trying raw json load"))
  /\ UNCHANGED <<outside, candidate2, sample, form, value, candidate, outcome>>
TryRawJsonSkipsEscaped ==
  /\ pc = "call"
  /\ ~IsDict(value)
  /\ IsStr(value)
  /\ tried' = Append(tried, "raw")
  /\ \E r \in {RawJsonAttempt(value.v)} :
     IF r.ok
     THEN /\ outcome' = Returned(r.val)
          /\ pc' = "done"
          /\ log' = Append(log, Debug("trying raw json load"))
     ELSE /\ outcome' = outcome
          /\ pc' = "base64"
          /\ log' = log \o <<Debug("trying raw json load"), Debug("raw json load failed")>>
  /\ UNCHANGED <<outside, candidate2, sample, form, value, candidate>>
TryRawJson ==
  /\ pc = "call"
  /\ ~IsDict(value)
  /\ IsStr(value)
  /\ tried' = Append(tried, "raw")
  /\ \E r \in {RawJsonAttempt(value.v)} :
     IF r.ok
     THEN /\ outcome' = Returned(r.val)
          /\ pc' = "done"
          /\ log' = Append(log, Debug("trying raw json load"))
     ELSE /\ outcome' = outcome
          /\ pc' = "escaped"
          /\ log' = log \o <<Debug("trying raw json load"), Debug("raw json load failed")>>
  /\ UNCHANGED <<outside, candidate2, sample, form, value, candidate>>

\* Lines 39-45: strategy 2.
TryEscapedNewlines ==
  /\ pc = "escaped"
  /\ tried' = Append(tried, "escaped")
  /\ \E r \in {EscapedNewlinesAttempt(value.v)} :
     IF r.ok
     THEN /\ outcome' = Returned(r.val)
          /\ pc' = "done"
          /\ log' = Append(log, Debug("trying escaped-newlines fix"))
     ELSE /\ outcome' = outcome
          /\ pc' = "base64"
          /\ log' = log \o <<Debug("trying escaped-newlines fix"),
                             Debug("escaped-newlines attempt failed")>>
  /\ UNCHANGED <<outside, candidate2, sample, form, value, candidate>>

\* Lines 47-56: strategy 3, the cleaned text decoded as it is.
TryBase64 ==
  /\ pc = "base64"
  /\ tried' = Append(tried, "base64")
  /\ candidate' = Base64Cleanup(value.v)
  /\ \E r \in {Base64JsonAttempt(candidate')} :
     IF r.ok
     THEN /\ outcome' = Returned(r.val)
          /\ pc' = "done"
          /\ log' = Append(log, Debug("trying base64 decode"))
     ELSE /\ outcome' = outcome
          /\ pc' = "padfix"
          /\ log' = log \o <<Debug("trying base64 decode"),
                             LogRec("DEBUG", "base64 first attempt failed: %s",
                                    ExcText(r.err, r.quoted), -1)>>
  /\ UNCHANGED <<outside, candidate2, sample, form, value>>

\* Lines 57-69: strategy 3 again with the padding completed; a failure is
\* logged and raised again.
TryPadFixRetriesOnce ==
  /\ pc = "padfix"
  /\ tried' = Append(tried, "padfix")
  /\ candidate2' = PadFix(candidate)
  /\ \E r \in {Base64JsonAttempt(candidate2')} :
     IF r.ok
     THEN /\ outcome' = Returned(r.val)
          /\ pc' = "done"
          /\ log' = log
     ELSE /\ outcome' = outcome
          /\ pc' = IF tried[Len(tried)] = "padfix" THEN "failed" ELSE "padfix"
          /\ log' = Append(log, LogRec("DEBUG", "base64 auto-fix failed: %s",
                                       ExcText(r.err, r.quoted), -1))
  /\ UNCHANGED <<outside, sample, form, value, candidate>>
TryPadFix ==
  /\ pc = "padfix"
  /\ tried' = Append(tried, "padfix")
  /\ candidate2' = PadFix(candidate)
  /\ \E r \in {Base64JsonAttempt(candidate2')} :
     \E fixed \in {IF r.b64ok
                   THEN <<LogRec("INFO", "auto-fixed base64 padding", NoExcText, -1)>>
                   ELSE <<>>} :
     IF r.ok
     THEN /\ outcome' = Returned(r.val)
          /\ pc' = "done"
          /\ log' = log \o fixed
     ELSE /\ outcome' = outcome
          /\ pc' = "failed"
          /\ log' = log \o fixed
                    \o <<LogRec("DEBUG", "base64 auto-fix failed: %s",
                           ExcText(r.err, r.quoted), -1)>>
  /\ UNCHANGED <<outside, sample, form, value, candidate>>

\* Lines 70-81: the outer handler logs the exception and the input's length,
\* then the final ValueError is raised.
RaiseAllFailedLeaksInput ==
  /\ pc = "failed"
  /\ log' = log \o <<LogRec("DEBUG", "base64 decode failed: %s", log[Len(log)].exc, -1),
                     LogRec("DEBUG", "input length=%d", NoExcText, Len(value.v))>>
  /\ outcome' = Raised([cls |-> "ValueError", msg |-> "nao contem JSON valido: %s",
                        arg |-> value.v])
  /\ pc' = "done"
  /\ UNCHANGED <<outside, candidate2, sample, form, value, tried, candidate>>
RaiseAllFailedMissing ==
  /\ pc = "failed"
  /\ log' = log \o <<LogRec("DEBUG", "base64 decode failed: %s", log[Len(log)].exc, -1),
                     LogRec("DEBUG", "input length=%d", NoExcText, Len(value.v))>>
  /\ outcome' = Returned(PyNone)
  /\ pc' = "done"
  /\ UNCHANGED <<outside, candidate2, sample, form, value, tried, candidate>>
RaiseAllFailed ==
  /\ pc = "failed"
  /\ log' = log \o <<LogRec("DEBUG", "base64 decode failed: %s", log[Len(log)].exc, -1),
                     LogRec("DEBUG", "input length=%d", NoExcText, Len(value.v))>>
  /\ outcome' = Raised(AllFailedError)
  /\ pc' = "done"
  /\ UNCHANGED <<outside, candidate2, sample, form, value, tried, candidate>>

Next ==
  \/ PassThrough
  \/ RejectType
  \/ TryRawJson
  \/ TryEscapedNewlines
  \/ TryBase64
  \/ TryPadFix
  \/ RaiseAllFailed

Spec == Init /\ [][Next]_vars

\* The call has a statement left to execute: every position short of "done"
\* is the guard of an action, and at "call" the three type guards between
\* them cover every value.
HasNextStatement ==
  \/ pc = "call" /\ (IsDict(value) \/ IsStr(value) \/ (~IsDict(value) /\ ~IsStr(value)))
  \/ pc \in {"escaped", "base64", "padfix", "failed"}

\* A call that has started runs on: the interpreter executes the next
\* statement of the function as long as there is one.  This is weak fairness
\* of Next with its enabling condition written out as HasNextStatement:
\* either the call is, again and again, out of statements, or it keeps
\* taking steps.
FairSpec == Spec /\ ([]<>(~HasNextStatement) \/ []<><<Next>>_vars)

(***************************************************************************)
(* Calls of normalize_service_account_json from several threads            *)
(*                                                                         *)
(* The function keeps all it works on in locals (value, maybe, candidate,  *)
(* decoded, ...); the one object it shares is the module's logger.  The    *)
(* running thread's locals are the variables above; Switch suspends it and *)
(* resumes another thread, whose locals were parked.                       *)
(***************************************************************************)
Frame ==
  [sample |-> sample, form |-> form, value |-> value, pc |-> pc,
   tried |-> tried, candidate |-> candidate, candidate2 |-> candidate2,
   outcome |-> outcome]

\* The frame of a call that is about to start.
StartFrame(f, s, v) ==
  [sample |-> s, form |-> f, value |-> v, pc |-> "call",
   tried |-> <<>>, candidate |-> <<>>, candidate2 |-> <<>>, outcome |-> Pending]

\* The interpreter hands the processor to the thread parked at i.  The
\* candidate of a suspended call stays in its own frame.
SwitchSharesCandidate ==
  /\ \E i \in 1..Len(parked) :
       /\ sample' = parked[i].sample
       /\ form' = parked[i].form
       /\ value' = parked[i].value
       /\ pc' = parked[i].pc
       /\ tried' = parked[i].tried
       /\ candidate' = candidate
       /\ candidate2' = parked[i].candidate2
       /\ outcome' = parked[i].outcome
       /\ parked' = [parked EXCEPT ![i] = Frame]
  /\ UNCHANGED <<log, elsewhere>>
Switch ==
  /\ \E i \in 1..Len(parked) :
       /\ sample' = parked[i].sample
       /\ form' = parked[i].form
       /\ value' = parked[i].value
       /\ pc' = parked[i].pc
       /\ tried' = parked[i].tried
       /\ candidate' = parked[i].candidate
       /\ candidate2' = parked[i].candidate2
       /\ outcome' = parked[i].outcome
       /\ parked' = [parked EXCEPT ![i] = Frame]
  /\ UNCHANGED <<log, elsewhere>>

\* The arguments of the concurrent calls: one for every way through the
\* function.
ConcSamples ==
  { PyDict(<<>>),
    PyDict(<<[k |-> KeyNames[1], v |-> PyStr(<<LF>>)]>>) }
ConcTexts ==
  { Text(<<"n", "o", "t", "-", "j", "s", "o", "n">>),
    Text(<<"M", "Q", "=", "=">>),
    Text(<<"0", "0">>),
    Text(<<"[", "]">>) }
ConcStarts ==
  {StartFrame(f, s, Encode(f, s)) : f \in SampleForms, s \in ConcSamples}
  \cup {StartFrame("text", PyNone, PyStr(t)) : t \in ConcTexts}
  \cup {StartFrame("other", PyNone, v) : v \in OtherValues}

\* The calls that run together: every two of ConcStarts, and three on the
\* base64 paths.
ConcRuns ==
  {<<a, b>> : a, b \in ConcStarts}
  \cup {<<StartFrame("base64_nopad", PyDict(<<>>), Encode("base64_nopad", PyDict(<<>>))),
          StartFrame("text", PyNone, PyStr(Text(<<"M", "Q", "=", "=">>))),
          StartFrame("text", PyNone, PyStr(Text(<<"0", "0">>)))>>}

ConcInit ==
  /\ \E run \in ConcRuns :
       /\ sample = run[1].sample
       /\ form = run[1].form
       /\ value = run[1].value
       /\ pc = run[1].pc
       /\ tried = run[1].tried
       /\ candidate = run[1].candidate
       /\ candidate2 = run[1].candidate2
       /\ outcome = run[1].outcome
       /\ parked = Tail(run)
  /\ log = <<>>
  /\ LoggingUntouched
  /\ ServiceUntouched
  /\ ListUntouched
  /\ SheetsUntouched

ConcNext ==
  \/ PassThrough
  \/ RejectType
  \/ TryRawJson
  \/ TryEscapedNewlines
  \/ TryBase64
  \/ TryPadFix
  \/ RaiseAllFailed
  \/ Switch

ConcSpec == ConcInit /\ [][ConcNext]_vars

(***************************************************************************)
(* logging_config.setup_logging(log_file, default_level)                   *)
(***************************************************************************)
\* No call of normalize is running or has run.
callVars ==
  <<sample, form, value, pc, tried, candidate, candidate2, outcome, log, parked>>
NoCall ==
  /\ sample = PyNone
  /\ form = "other"
  /\ value = PyNone
  /\ pc = "done"
  /\ tried = <<>>
  /\ candidate = <<>>
  /\ candidate2 = <<>>
  /\ outcome = Pending
  /\ log = <<>>
  /\ parked = <<>>

\* A path is its components and whether it starts at the root; the
\* process's working directory is Cwd.
Path(abs, parts) == [abs |-> abs, parts |-> parts]
Cwd == Path(TRUE, <<"app">>)

\* os.path.normpath on the components: "." dropped, ".." taking back the
\* component before it (at the root it is dropped).
RECURSIVE NormParts(_, _)
NormParts(done, parts) ==
  IF parts = <<>> THEN done
  ELSE IF Head(parts) = "." THEN NormParts(done, Tail(parts))
  ELSE IF Head(parts) = ".."
  THEN NormParts(IF done = <<>> THEN done ELSE SubSeq(done, 1, Len(done) - 1),
                 Tail(parts))
  ELSE NormParts(Append(done, Head(parts)), Tail(parts))

\* os.path.abspath(path) == normpath(join(os.getcwd(), path))
Abspath(path) ==
  IF path.abs THEN Path(TRUE, NormParts(<<>>, path.parts))
  ELSE Path(TRUE, NormParts(<<>>, Cwd.parts \o path.parts))

\* os.path.dirname(path): all before the last separator; '' when the path
\* has none.
Dirname(path) == Path(path.abs, SubSeq(path.parts, 1, Len(path.parts) - 1))
IsEmptyPath(path) == ~path.abs /\ path.parts = <<>>

\* Line 14: the default of LOG_FILE.
DefaultLogFile == Path(FALSE, <<"logs", "alpha_insights.log">>)
NoArg == [abs |-> FALSE, parts |-> <<"None">>]
Unset == [abs |-> FALSE, parts |-> <<"unset">>]

\* Lines 13-14
LogFileOf(log_file, envLogFile) ==
  IF log_file # NoArg THEN log_file
  ELSE IF envLogFile # Unset THEN envLogFile
  ELSE DefaultLogFile

\* str.upper() on ASCII letters
Upper(name) ==
  [i \in 1..Len(name) |->
     IF name[i] >= LOWER_a /\ name[i] <= LOWER_z THEN name[i] - 32 ELSE name[i]]

\* Lines 15-16: getattr(logging, level_name, logging.INFO)
LevelNamed(upper) ==
  IF upper = <<68, 69, 66, 85, 71>> THEN 10
  ELSE IF upper = <<73, 78, 70, 79>> THEN 20
  ELSE IF upper = <<87, 65, 82, 78, 73, 78, 71>> THEN 30
  ELSE IF upper = <<69, 82, 82, 79, 82>> THEN 40
  ELSE 20
LevelOf(envLogLevel, default_level) ==
  LevelNamed(Upper(IF envLogLevel # <<>> THEN envLogLevel ELSE default_level))

\* The handlers of lines 31-38, and one that another module installed.
FileHandler(path, level) ==
  [cls |-> "RotatingFileHandler", baseFilename |-> Abspath(path),
   level |-> level, by |-> "setup_logging"]
ConsoleHandler(level) ==
  [cls |-> "StreamHandler", baseFilename |-> Path(FALSE, <<>>),
   level |-> level, by |-> "setup_logging"]
ForeignHandler ==
  [cls |-> "StreamHandler", baseFilename |-> Path(FALSE, <<>>),
   level |-> 0, by |-> "other"]

\* Lines 20-25: a RotatingFileHandler on the same file is installed.
AlreadyConfigured(file) ==
  \E i \in 1..Len(handlers) :
     /\ handlers[i].cls = "RotatingFileHandler"
     /\ handlers[i].baseFilename = Abspath(file)

\* The record of one call: the path it was given (lines 13-14), whether it
\* returned or raised, and whether it changed the root logger.
SetupCall(file, result, changed) ==
  [path |-> file, result |-> result, changed |-> changed]

\* Bound on the number of calls of setup_logging
MaxSetupCalls == 3

\* The arguments and the environment of a call
LogFileArgs ==
  { NoArg,
    Path(FALSE, <<"logs", "a.log">>),
    Path(FALSE, <<".", "logs", "a.log">>),
    Path(FALSE, <<"logs", "..", "logs", "a.log">>),
    Path(TRUE, <<"app", "logs", "a.log">>),
    Path(FALSE, <<"logs", "b.log">>),
    Path(FALSE, <<"app.log">>) }
EnvLogFiles == {Unset, Path(FALSE, <<"logs", "a.log">>), Path(FALSE, <<"app.log">>)}
LevelNames ==
  { <<>>, <<73, 78, 70, 79>>, <<100, 101, 98, 117, 103>>, <<66, 79, 71, 85, 83>> }

LoggingInit ==
  /\ handlers \in {<<>>, <<ForeignHandler>>}
  /\ rootLevel = 30
  /\ setupCalls = <<>>
  /\ NoCall
  /\ ServiceUntouched
  /\ ListUntouched
  /\ SheetsUntouched

\* What a call works with: the file of lines 13-14, the level of lines 15-16.
SetupArgs ==
  { [file |-> LogFileOf(log_file, envLogFile),
     level |-> LevelOf(envLogLevel, default_level)] :
      log_file \in LogFileArgs, envLogFile \in EnvLogFiles,
      envLogLevel \in LevelNames, default_level \in LevelNames \ {<<>>} }

\* Lines 13-25: a RotatingFileHandler on the file is installed: return.
SetupLoggingAgain ==
  /\ Len(setupCalls) < MaxSetupCalls
  /\ \E a \in SetupArgs :
       /\ AlreadyConfigured(a.file)
       /\ setupCalls' = Append(setupCalls, SetupCall(a.file, "returned", FALSE))
  /\ UNCHANGED <<handlers, rootLevel>>
  /\ UNCHANGED <<callVars, serviceVars, listVars, sheetVars>>

\* Lines 13-27: os.makedirs('') raises FileNotFoundError.
SetupLoggingNoDirectory ==
  /\ Len(setupCalls) < MaxSetupCalls
  /\ \E a \in SetupArgs :
       /\ ~AlreadyConfigured(a.file)
       /\ IsEmptyPath(Dirname(a.file))
       /\ setupCalls' = Append(setupCalls, SetupCall(a.file, "raised", FALSE))
  /\ UNCHANGED <<handlers, rootLevel>>
  /\ UNCHANGED <<callVars, serviceVars, listVars, sheetVars>>

\* Lines 13-42: the directory is made, both handlers are added.
SetupLoggingFirst ==
  /\ Len(setupCalls) < MaxSetupCalls
  /\ \E a \in SetupArgs :
       /\ ~AlreadyConfigured(a.file)
       /\ ~IsEmptyPath(Dirname(a.file))
       /\ handlers' = handlers \o <<FileHandler(a.file, a.level), ConsoleHandler(a.level)>>
       /\ rootLevel' = a.level
       /\ setupCalls' = Append(setupCalls, SetupCall(a.file, "returned", TRUE))
  /\ UNCHANGED <<callVars, serviceVars, listVars, sheetVars>>

LoggingNext ==
  \/ SetupLoggingAgain
  \/ SetupLoggingNoDirectory
  \/ SetupLoggingFirst


LoggingSpec == LoggingInit /\ [][LoggingNext]_vars

(***************************************************************************)
(* google_service.py: GoogleSheetsService(credentials_path) and            *)
(* get_google_service(credentials_path)                                    *)
(***************************************************************************)
\* if json_env: / file_env and ...: None and '' are false.
Truthy(v) == v # PyNone /\ v.v # <<>>

\* The files a construction may look at, and what is at each path:
\* "missing", a "valid" service-account file, or an "invalid" one.
EnvFilePath == Text(<<"e", "n", "v", ".", "j", "s", "o", "n">>)
ArgFilePath == Text(<<"a", "r", "g", ".", "j", "s", "o", "n">>)
DefaultCredentialsPath == Text(<<"k", "e", "y", "s", "/", "b", "o", "t", ".", "j", "s", "o", "n">>)
FilePaths == {EnvFilePath, ArgFilePath, DefaultCredentialsPath}
Disks ==
  {d \in [FilePaths -> {"missing", "valid", "invalid"}] :
      d[ArgFilePath] # "invalid" /\ d[DefaultCredentialsPath] # "invalid"}

\* What a construction yields: the credential sources it went to, in
\* order, and "built", or "raised" and the call that raised.
Built(source) == [sources |-> <<source>>, result |-> "built", at |-> "none"]
Failed(source, at) == [sources |-> <<source>>, result |-> "raised", at |-> at]

\* Credentials.from_service_account_info wants a mapping with the fields
\* of a service account; KeyNames stand for them.
HasCredentialFields(info) ==
  /\ IsDict(info)
  /\ \A n \in 1..Len(KeyNames) : \E i \in 1..Len(info.v) : info.v[i].k = KeyNames[n]

\* Lines 75-81: the two API clients are built.
BuildClients(source, builds) ==
  IF builds THEN Built(source) ELSE Failed(source, "build")

\* Lines 53-59
FromInfo(normalized, builds) ==
  IF normalized.status = "raised"
  THEN Failed("GOOGLE_SERVICE_ACCOUNT_JSON", "normalize_service_account_json")
  ELSE IF ~HasCredentialFields(normalized.val)
  THEN Failed("GOOGLE_SERVICE_ACCOUNT_JSON", "from_service_account_info")
  ELSE BuildClients("GOOGLE_SERVICE_ACCOUNT_JSON", builds)
FromJsonEnv(json_env, builds) == FromInfo(NormalizeOutcome(json_env), builds)

\* Lines 61 and 72: Credentials.from_service_account_file
FromFile(source, content, builds) ==
  IF content = "valid" THEN BuildClients(source, builds)
  ELSE Failed(source, "from_service_account_file")

\* Lines 67-73
FromPath(source, path, on_disk, builds) ==
  IF on_disk[path] = "missing" THEN Failed(source, "os.path.exists")
  ELSE FromFile(source, on_disk[path], builds)

\* Lines 46-85: GoogleSheetsService.__init__
ConstructFallsBack(json_env, file_env, credentials_path, on_disk, builds) ==
  IF Truthy(json_env) /\ FromJsonEnv(json_env, builds).result = "built"
  THEN FromJsonEnv(json_env, builds)
  ELSE IF Truthy(file_env) /\ on_disk[file_env.v] # "missing"
  THEN [FromFile("GOOGLE_SERVICE_ACCOUNT_FILE", on_disk[file_env.v], builds)
          EXCEPT !.sources = (IF Truthy(json_env) THEN <<"GOOGLE_SERVICE_ACCOUNT_JSON">>
                              ELSE <<>>) \o @]
  ELSE IF credentials_path = PyNone
  THEN FromPath("default", DefaultCredentialsPath, on_disk, builds)
  ELSE FromPath("credentials_path", credentials_path.v, on_disk, builds)
Construct(json_env, file_env, credentials_path, on_disk, builds) ==
  IF Truthy(json_env)
  THEN FromJsonEnv(json_env, builds)
  ELSE IF Truthy(file_env) /\ on_disk[file_env.v] # "missing"
  THEN FromFile("GOOGLE_SERVICE_ACCOUNT_FILE", on_disk[file_env.v], builds)
  ELSE IF credentials_path = PyNone
  THEN FromPath("default", DefaultCredentialsPath, on_disk, builds)
  ELSE FromPath("credentials_path", credentials_path.v, on_disk, builds)

\* Bound on the number of calls of get_google_service, and of constructions
MaxServiceCalls == 3

\* The environment, the disk and the argument of a construction.
FullSample ==
  PyDict(<<[k |-> KeyNames[1], v |-> PyStr(<<LF>>)],
           [k |-> KeyNames[2], v |-> PyStr(<<>>)]>>)
JsonEnvs ==
  { PyNone, PyStr(<<>>), PyStr(<<SPACE>>),
    Encode("base64_nopad", FullSample),
    Encode("json", PyDict(<<>>)),
    PyStr(Text(<<"n", "o", "t", "-", "j", "s", "o", "n">>)) }
FileEnvs == {PyNone, PyStr(<<>>), PyStr(EnvFilePath)}
CredentialsPaths == {PyNone, PyStr(ArgFilePath)}

\* The record of a construction: which one it is, the argument it was
\* given and what it yielded.
NextSerial == IF constructed.made THEN constructed.serial + 1 ELSE 1
Constructed(credentials_path, r) ==
  [made |-> TRUE, serial |-> NextSerial, credentials_path |-> credentials_path,
   sources |-> r.sources, result |-> r.result, at |-> r.at]

\* The record of a call of get_google_service.
Served(credentials_path, constructs, result, instance) ==
  [credentials_path |-> credentials_path, constructs |-> constructs,
   result |-> result, instance |-> instance]

ServiceInit ==
  /\ environ \in [json_env : JsonEnvs, file_env : FileEnvs]
  /\ disk \in Disks
  /\ service_instance = NoInstance
  /\ constructed = NotConstructed
  /\ served = <<>>
  /\ NoCall
  /\ LoggingUntouched
  /\ ListUntouched
  /\ SheetsUntouched

\* GoogleSheetsService(credentials_path), called by other code than
\* get_google_service: the singleton is not involved.
NewGoogleSheetsService ==
  /\ NextSerial <= MaxServiceCalls
  /\ \E credentials_path \in CredentialsPaths, builds \in BOOLEAN :
       \E r \in {Construct(environ.json_env, environ.file_env, credentials_path,
                           disk, builds)} :
          constructed' = Constructed(credentials_path, r)
  /\ UNCHANGED <<environ, disk, service_instance, served>>
  /\ UNCHANGED <<callVars, loggingVars, listVars, sheetVars>>

\* Lines 421-426 with _service_instance None: construct, store, return;
\* an exception of the constructor leaves the assignment undone.
GetGoogleServiceForgets ==
  /\ Len(served) < MaxServiceCalls
  /\ NextSerial <= MaxServiceCalls
  /\ service_instance = NoInstance
  /\ \E credentials_path \in CredentialsPaths, builds \in BOOLEAN :
       \E r \in {Construct(environ.json_env, environ.file_env, credentials_path,
                           disk, builds)} :
          /\ constructed' = Constructed(credentials_path, r)
          /\ service_instance' = NoInstance
          /\ served' = Append(served,
               IF r.result = "built"
               THEN Served(credentials_path, TRUE, "returned", [id |-> NextSerial])
               ELSE Served(credentials_path, TRUE, "raised", NoInstance))
  /\ UNCHANGED <<environ, disk>>
  /\ UNCHANGED <<callVars, loggingVars, listVars, sheetVars>>
GetGoogleServiceStoresFailed ==
  /\ Len(served) < MaxServiceCalls
  /\ NextSerial <= MaxServiceCalls
  /\ service_instance = NoInstance
  /\ \E credentials_path \in CredentialsPaths, builds \in BOOLEAN :
       \E r \in {Construct(environ.json_env, environ.file_env, credentials_path,
                           disk, builds)} :
          /\ constructed' = Constructed(credentials_path, r)
          /\ service_instance' = [id |-> NextSerial]
          /\ served' = Append(served,
               IF r.result = "built"
               THEN Served(credentials_path, TRUE, "returned", [id |-> NextSerial])
               ELSE Served(credentials_path, TRUE, "raised", NoInstance))
  /\ UNCHANGED <<environ, disk>>
  /\ UNCHANGED <<callVars, loggingVars, listVars, sheetVars>>
GetGoogleServiceFirst ==
  /\ Len(served) < MaxServiceCalls
  /\ NextSerial <= MaxServiceCalls
  /\ service_instance = NoInstance
  /\ \E credentials_path \in CredentialsPaths, builds \in BOOLEAN :
       \E r \in {Construct(environ.json_env, environ.file_env, credentials_path,
                           disk, builds)} :
          /\ constructed' = Constructed(credentials_path, r)
          /\ service_instance' =
               IF r.result = "built" THEN [id |-> NextSerial] ELSE NoInstance
          /\ served' = Append(served,
               IF r.result = "built"
               THEN Served(credentials_path, TRUE, "returned", [id |-> NextSerial])
               ELSE Served(credentials_path, TRUE, "raised", NoInstance))
  /\ UNCHANGED <<environ, disk>>
  /\ UNCHANGED <<callVars, loggingVars, listVars, sheetVars>>

\* Lines 421-426 with _service_instance set: it is returned.
GetGoogleServiceAgain ==
  /\ Len(served) < MaxServiceCalls
  /\ service_instance # NoInstance
  /\ \E credentials_path \in CredentialsPaths :
       served' = Append(served,
                        Served(credentials_path, FALSE, "returned", service_instance))
  /\ UNCHANGED <<environ, disk, service_instance, constructed>>
  /\ UNCHANGED <<callVars, loggingVars, listVars, sheetVars>>

ServiceNext ==
  \/ NewGoogleSheetsService
  \/ GetGoogleServiceFirst
  \/ GetGoogleServiceAgain

ServiceSpec == ServiceInit /\ [][ServiceNext]_vars

(***************************************************************************)
(* google_service.py: GoogleSheetsService.list_spreadsheets(max_results)   *)
(***************************************************************************)
\* Line 140: page_size = min(200, max_results - fetched) if max_results else 200
PageSizeIgnoresFetched(limit, got) ==
  IF limit # 0
  THEN (IF 200 <= limit THEN 200 ELSE limit)
  ELSE 200
PageSize(limit, got) ==
  IF limit # 0
  THEN (IF 200 <= limit - got THEN 200 ELSE limit - got)
  ELSE 200

\* Bound on the number of pages holding files that Drive has for one call
MaxPages == 4

\* The arguments tried: none, below zero, small, around the page limit of
\* 200 and beyond two pages.
MaxResultsArgs == {-1, 0, 1, 2, 3, 100, 199, 200, 201, 399, 400, 401}

\* What Drive may answer to a request of page_size files: how many files,
\* up to one more than asked for, and whether a nextPageToken.
PageLengths(page_size) ==
  {n \in {0, 1, page_size - 1, page_size, page_size + 1} : n >= 0}
Request(page_size, before, returned) ==
  [pageSize |-> page_size, before |-> before, returned |-> returned]

\* The same request answered the same way as the one before is not
\* recorded twice.
Recorded(made, request) ==
  IF Len(made) > 0 /\ made[Len(made)] = request THEN made ELSE Append(made, request)

\* What execute() may throw: an HttpError with the status of the response,
\* or an exception that is no HttpError.
HttpError(status) == [cls |-> "HttpError", status |-> status]
HttpStatuses == {400, 403, 404, 429, 500}
DriveErrors ==
  {HttpError(status) : status \in HttpStatuses}
    \cup {[cls |-> "TimeoutError", status |-> 0]}

\* Line 173
DrivePermissionError == [cls |-> "PermissionError", status |-> 0]

\* Lines 167-180: what the call does with the exception e, got being the
\* number of files in all_files.
HandleErrorReturnsPartial(e, got) ==
  IF e.cls = "HttpError" /\ e.status = 404
  THEN [returns |-> got, raises |-> NoDriveError]
  ELSE IF e.cls = "HttpError" /\ e.status = 403
  THEN [returns |-> -1, raises |-> DrivePermissionError]
  ELSE [returns |-> -1, raises |-> e]
HandleError(e, got) ==
  IF e.cls = "HttpError" /\ e.status = 404
  THEN [returns |-> 0, raises |-> NoDriveError]
  ELSE IF e.cls = "HttpError" /\ e.status = 403
  THEN [returns |-> -1, raises |-> DrivePermissionError]
  ELSE [returns |-> -1, raises |-> e]

ListInit ==
  /\ max_results \in MaxResultsArgs
  /\ all_files = 0
  /\ fetched = 0
  /\ page_token = ""
  /\ requests = <<>>
  /\ listPc = "loop"
  /\ listed = -1
  /\ thrown = NoDriveError
  /\ listRaised = NoDriveError
  /\ NoCall
  /\ LoggingUntouched
  /\ ServiceUntouched
  /\ SheetsUntouched

\* Lines 140-142: nothing left to ask for: break.
StopPaging ==
  /\ listPc = "loop"
  /\ PageSize(max_results, fetched) <= 0
  /\ listPc' = "return"
  /\ UNCHANGED <<max_results, all_files, fetched, page_token, requests, listed,
                 thrown, listRaised>>
  /\ UNCHANGED <<callVars, loggingVars, serviceVars, sheetVars>>

\* Lines 140-155: a page is asked for, and the call waits for Drive.
RequestPage ==
  /\ listPc = "loop"
  /\ PageSize(max_results, fetched) > 0
  /\ listPc' = "request"
  /\ UNCHANGED <<max_results, all_files, fetched, page_token, requests, listed,
                 thrown, listRaised>>
  /\ UNCHANGED <<callVars, loggingVars, serviceVars, sheetVars>>

\* Lines 155-161: Drive answers with a page, which is added; the loop goes
\* on when there is a next page and max_results is not reached.
FetchPage ==
  /\ listPc = "request"
  /\ \E n \in PageLengths(PageSize(max_results, fetched)), token \in {"", "next"} :
       /\ n > 0 => Len(requests) < MaxPages
       /\ requests' = Recorded(requests,
                                Request(PageSize(max_results, fetched), fetched, n))
       /\ all_files' = all_files + n
       /\ fetched' = fetched + n
       /\ page_token' = token
       /\ listPc' = IF token = "" \/ (max_results # 0 /\ fetched + n >= max_results)
                    THEN "return" ELSE "loop"
  /\ UNCHANGED <<max_results, listed, thrown, listRaised>>
  /\ UNCHANGED <<callVars, loggingVars, serviceVars, sheetVars>>

\* Lines 155 and 167-180: execute() throws, and the call returns [] or
\* raises.
DriveFails ==
  /\ listPc = "request"
  /\ \E e \in DriveErrors :
       \E r \in {HandleError(e, all_files)} :
          /\ thrown' = e
          /\ listed' = r.returns
          /\ listRaised' = r.raises
          /\ listPc' = IF r.raises = NoDriveError THEN "done" ELSE "raised"
  /\ UNCHANGED <<max_results, all_files, fetched, page_token, requests>>
  /\ UNCHANGED <<callVars, loggingVars, serviceVars, sheetVars>>

\* Lines 163-165
ReturnFiles ==
  /\ listPc = "return"
  /\ listed' = all_files
  /\ listPc' = "done"
  /\ UNCHANGED <<max_results, all_files, fetched, page_token, requests,
                 thrown, listRaised>>
  /\ UNCHANGED <<callVars, loggingVars, serviceVars, sheetVars>>

ListNext ==
  \/ StopPaging
  \/ RequestPage
  \/ FetchPage
  \/ DriveFails
  \/ ReturnFiles

ListSpec == ListInit /\ [][ListNext]_vars

\* The call keeps running: it is never suspended for ever, and Drive
\* answers every request, with a page or with an error.
ListFairSpec == ListSpec /\ WF_vars(ListNext)

(***************************************************************************)
(* google_service.py: GoogleSheetsService.get_form_responses               *)
(***************************************************************************)
\* row_dict[header] = cell: a key already there gets the new value.
SetItem(d, k, v) ==
  [x \in (DOMAIN d) \cup {k} |-> IF x = k THEN v ELSE d[x]]

\* Line 295 for the header at (1-based) position i: row[i] if i < len(row)
\* else "".
CellAtOffByOne(row, i) == IF i < Len(row) THEN row[i] ELSE ""
CellAt(row, i) == IF i <= Len(row) THEN row[i] ELSE ""

\* Lines 293-295: row_dict after the headers from position i on.
RECURSIVE RowDictFrom(_, _, _, _)
RowDictFrom(row_dict, headers, row, i) ==
  IF i > Len(headers) THEN row_dict
  ELSE RowDictFrom(SetItem(row_dict, headers[i], CellAt(row, i)), headers, row, i + 1)
RowDict(headers, row) == RowDictFrom(<<>>, headers, row, 1)

\* Bounds on the value range read: rows after the header, and cells in a row
MaxDataRows == 2
MaxCells == 3

\* The value ranges the Sheets API may return: no row at all, or a header
\* row (possibly empty, possibly naming a column twice) and data rows
\* shorter than, as long as and longer than the header.
HeaderCells == {"Nome", "Nota"}
HeaderRows == UNION {[1..n -> HeaderCells] : n \in 0..MaxCells}
CellSource ==
  << <<"Ana", "8", "sim", "x", "y">>, <<"", "Bia", "", "10", "">> >>
DataRows ==
  {SubSeq(CellSource[v], 1, n) : v \in 1..Len(CellSource), n \in 0..MaxCells}
ValueRanges ==
  {<<>>} \cup
  UNION {{<<h>> \o d : h \in HeaderRows, d \in [1..n -> DataRows]} :
            n \in 0..MaxDataRows}

\* Lines 302-315: what the call raises for the exception e.
FormNotFoundError == [cls |-> "FileNotFoundError", status |-> 0]
FormRaises(e) ==
  IF e.cls = "HttpError" /\ e.status = 404 THEN FormNotFoundError
  ELSE IF e.cls = "HttpError" /\ e.status = 403 THEN DrivePermissionError
  ELSE e

FormInit ==
  /\ values = <<>>
  /\ responses = <<>>
  /\ formPc = "read"
  /\ form_responses = <<>>
  /\ formRaised = NoDriveError
  /\ ConvertUntouched
  /\ NoCall
  /\ LoggingUntouched
  /\ ServiceUntouched
  /\ ListUntouched

\* Lines 274-290: the value range is read; without a row the call returns
\* [] at once.
ReadValues ==
  /\ formPc = "read"
  /\ \E range \in ValueRanges :
       /\ values' = range
       /\ formPc' = IF range = <<>> THEN "done" ELSE "rows"
  /\ UNCHANGED <<responses, form_responses, formRaised>>
  /\ UNCHANGED <<callVars, loggingVars, serviceVars, listVars, convertVars>>

\* Lines 274-277 and 302-315: the read throws, and the call raises.
ReadFails ==
  /\ formPc = "read"
  /\ \E e \in DriveErrors : formRaised' = FormRaises(e)
  /\ formPc' = "raised"
  /\ UNCHANGED <<values, responses, form_responses>>
  /\ UNCHANGED <<callVars, loggingVars, serviceVars, listVars, convertVars>>

\* Lines 291-296: the next data row becomes a dictionary.
ConvertRow ==
  /\ formPc = "rows"
  /\ Len(responses) < Len(values) - 1
  /\ responses' = Append(responses, RowDict(values[1], values[Len(responses) + 2]))
  /\ UNCHANGED <<values, formPc, form_responses, formRaised>>
  /\ UNCHANGED <<callVars, loggingVars, serviceVars, listVars, convertVars>>

\* Lines 298-300
ReturnResponses ==
  /\ formPc = "rows"
  /\ Len(responses) = Len(values) - 1
  /\ form_responses' = responses
  /\ formPc' = "done"
  /\ UNCHANGED <<values, responses, formRaised>>
  /\ UNCHANGED <<callVars, loggingVars, serviceVars, listVars, convertVars>>

FormNext ==
  \/ ReadValues
  \/ ReadFails
  \/ ConvertRow
  \/ ReturnResponses

FormSpec == FormInit /\ [][FormNext]_vars

(***************************************************************************)
(* google_service.py: GoogleSheetsService.auto_convert_tabular_files       *)
(***************************************************************************)
\* The MIME types of the query of list_spreadsheets(include_excel=True)
GoogleSheetMime == "application/vnd.google-apps.spreadsheet"
XlsxMime == "application/vnd.openxmlformats-officedocument.spreadsheetml.sheet"
XlsMime == "application/vnd.ms-excel"
CsvMime == "text/csv"

\* Lines 366-367
IsGoogleSheet(f) == f.mimeType = GoogleSheetMime
IsOther(f) == f.mimeType # GoogleSheetMime
GoogleSheets(listing) == SelectSeq(listing, IsGoogleSheet)
Others(listing) == SelectSeq(listing, IsOther)

\* str.lower() on ASCII text
Lower(name) ==
  [i \in 1..Len(name) |->
     IF name[i] \in UPPER_A..UPPER_Z THEN name[i] + 32 ELSE name[i]]

\* str.endswith
EndsWith(name, ext) ==
  /\ Len(name) >= Len(ext)
  /\ SubSeq(name, Len(name) - Len(ext) + 1, Len(name)) = ext

\* Line 370: ['.xlsx', '.xls', '.csv']
Extensions ==
  << <<DOT, 120, 108, 115, 120>>, <<DOT, 120, 108, 115>>, <<DOT, 99, 115, 118>> >>

\* Lines 369-373: base_name, from the k-th extension on
RECURSIVE BaseNameFrom(_, _)
BaseNameFrom(name, k) ==
  IF k > Len(Extensions) THEN Strip(name)
  ELSE IF EndsWith(Lower(name), Extensions[k])
  THEN Strip(SubSeq(name, 1, Len(name) - Len(Extensions[k])))
  ELSE BaseNameFrom(name, k + 1)
BaseName(name) == BaseNameFrom(name, 1)

\* Line 375
SheetNames(listing) ==
  {Lower(BaseName(GoogleSheets(listing)[i].name)) : i \in 1..Len(GoogleSheets(listing))}

\* Bound on the number of files in the listing
MaxListing == 3

\* The files Drive may list: Google Sheets and tabular files whose names
\* differ by case, by spaces around the base name, by extension, by a
\* second extension and by a space after the extension.
FilePool ==
  { [name |-> Text(<<"r">>), mimeType |-> GoogleSheetMime],
    [name |-> Text(<<"R", " ">>), mimeType |-> GoogleSheetMime],
    [name |-> Text(<<"s", ".", "c", "s", "v">>), mimeType |-> GoogleSheetMime],
    [name |-> Text(<<"r", ".", "x", "l", "s", "x">>), mimeType |-> XlsxMime],
    [name |-> Text(<<"R", ".", "X", "L", "S">>), mimeType |-> XlsMime],
    [name |-> Text(<<" ", "r", " ", ".", "c", "s", "v">>), mimeType |-> CsvMime],
    [name |-> Text(<<"r", ".", "c", "s", "v", ".", "x", "l", "s", "x">>), mimeType |-> XlsxMime],
    [name |-> Text(<<"S", ".", "c", "s", "v">>), mimeType |-> CsvMime],
    [name |-> Text(<<"s", ".", "c", "s", "v", " ">>), mimeType |-> CsvMime] }
WithIds(listing) ==
  [i \in 1..Len(listing) |->
     [id |-> i, name |-> listing[i].name, mimeType |-> listing[i].mimeType]]
Listings == {WithIds(l) : l \in UNION {[1..n -> FilePool] : n \in 0..MaxListing}}

\* The arguments tried; max_conversions 0 sets no limit.
IncludeArgs == {<<TRUE, TRUE>>, <<FALSE, TRUE>>, <<TRUE, FALSE>>}
MaxConversionsArgs == {0, 1, 2}

\* Lines 381-390: f is passed over.
Excluded(f, csv, xls) ==
  \/ f.mimeType = CsvMime /\ ~csv
  \/ f.mimeType \in {XlsMime, XlsxMime} /\ ~xls
SkipsCaseSensitive(f, csv, xls, names) ==
  Excluded(f, csv, xls) \/ BaseName(f.name) \in names
Skips(f, csv, xls, names) ==
  Excluded(f, csv, xls) \/ Lower(BaseName(f.name)) \in names

\* Line 395: the loop is left after this conversion.
LimitReachedLate(limit, done) == limit # 0 /\ done > limit
LimitReached(limit, done) == limit # 0 /\ done >= limit

\* The record of a call of convert_excel_to_google_sheet
Conversion(f, created) ==
  [id |-> f.id, new_title |-> BaseName(f.name), created |-> created]

ConvertInit ==
  /\ files = <<>>
  /\ \E inc \in IncludeArgs : include_csv = inc[1] /\ include_xls = inc[2]
  /\ max_conversions \in MaxConversionsArgs
  /\ sheet_names = {}
  /\ converted = 0
  /\ skipped = 0
  /\ scanned = 0
  /\ conversions = <<>>
  /\ convertPc = "list"
  /\ convert_result = NoResult
  /\ FormUntouched
  /\ NoCall
  /\ LoggingUntouched
  /\ ServiceUntouched
  /\ ListUntouched

\* Lines 365-378: the files are listed and the names of the Google Sheets
\* collected.
ListFiles ==
  /\ convertPc = "list"
  /\ \E listing \in Listings :
       /\ files' = listing
       /\ sheet_names' = SheetNames(listing)
  /\ converted' = 0
  /\ skipped' = 0
  /\ convertPc' = "scan"
  /\ UNCHANGED <<include_csv, include_xls, max_conversions, scanned, conversions,
                 convert_result>>
  /\ UNCHANGED <<callVars, loggingVars, serviceVars, listVars, formVars>>

\* Lines 365 and 399-401: list_spreadsheets raises, and so does the call.
ListFilesFails ==
  /\ convertPc = "list"
  /\ convertPc' = "raised"
  /\ UNCHANGED <<files, include_csv, include_xls, max_conversions, sheet_names,
                 converted, skipped, scanned, conversions, convert_result>>
  /\ UNCHANGED <<callVars, loggingVars, serviceVars, listVars, formVars>>

\* Lines 379-390: the next file is passed over.
SkipFile ==
  /\ convertPc = "scan"
  /\ scanned < Len(Others(files))
  /\ Skips(Others(files)[scanned + 1], include_csv, include_xls, sheet_names)
  /\ skipped' = skipped + 1
  /\ scanned' = scanned + 1
  /\ UNCHANGED <<files, include_csv, include_xls, max_conversions, sheet_names,
                 converted, conversions, convertPc, convert_result>>
  /\ UNCHANGED <<callVars, loggingVars, serviceVars, listVars, formVars>>

\* Lines 379-396: the next file is converted.
ConvertFile ==
  /\ convertPc = "scan"
  /\ scanned < Len(Others(files))
  /\ \E f \in {Others(files)[scanned + 1]} :
       /\ ~Skips(f, include_csv, include_xls, sheet_names)
       /\ conversions' = Append(conversions, Conversion(f, TRUE))
       /\ sheet_names' = sheet_names \cup {Lower(BaseName(f.name))}
  /\ converted' = converted + 1
  /\ scanned' = scanned + 1
  /\ convertPc' = IF LimitReached(max_conversions, converted + 1)
                   THEN "return" ELSE "scan"
  /\ UNCHANGED <<files, include_csv, include_xls, max_conversions, skipped,
                 convert_result>>
  /\ UNCHANGED <<callVars, loggingVars, serviceVars, listVars, formVars>>

\* Lines 392, 347-349 and 399-401: the copy request fails, and the call
\* raises.
ConvertFails ==
  /\ convertPc = "scan"
  /\ scanned < Len(Others(files))
  /\ \E f \in {Others(files)[scanned + 1]} :
       /\ ~Skips(f, include_csv, include_xls, sheet_names)
       /\ conversions' = Append(conversions, Conversion(f, FALSE))
  /\ convertPc' = "raised"
  /\ UNCHANGED <<files, include_csv, include_xls, max_conversions, sheet_names,
                 converted, skipped, scanned, convert_result>>
  /\ UNCHANGED <<callVars, loggingVars, serviceVars, listVars, formVars>>

\* Line 398, after the last file or after the break
ReturnCounts ==
  /\ \/ convertPc = "return"
     \/ convertPc = "scan" /\ scanned = Len(Others(files))
  /\ convert_result' = [converted |-> converted, skipped |-> skipped]
  /\ convertPc' = "done"
  /\ UNCHANGED <<files, include_csv, include_xls, max_conversions, sheet_names,
                 converted, skipped, scanned, conversions>>
  /\ UNCHANGED <<callVars, loggingVars, serviceVars, listVars, formVars>>

ConvertNext ==
  \/ ListFiles
  \/ ListFilesFails
  \/ SkipFile
  \/ ConvertFile
  \/ ConvertFails
  \/ ReturnCounts

ConvertSpec == ConvertInit /\ [][ConvertNext]_vars

(***************************************************************************)
(* Properties                                                              *)
(***************************************************************************)
\* a and b are the same value, member for member and in the same order.
RECURSIVE Identical(_, _)
Identical(a, b) ==
  /\ a.t = b.t
  /\ IF a.t = "dict"
     THEN /\ Len(a.v) = Len(b.v)
          /\ \A i \in 1..Len(a.v) :
                a.v[i].k = b.v[i].k /\ Identical(a.v[i].v, b.v[i].v)
     ELSE IF a.t = "list"
     THEN /\ Len(a.v) = Len(b.v)
          /\ \A i \in 1..Len(a.v) : Identical(a.v[i], b.v[i])
     ELSE a.v = b.v

\* The call has returned a value equal (Python ==) to val.
ReturnedEqual(val) == outcome.status = "returned" /\ PyEq(outcome.val, val)

\* A field of the sample holds a newline.
SampleHasNewline ==
  /\ sample.t = "dict"
  /\ \E i \in 1..Len(sample.v) :
        /\ sample.v[i].v.t = "str"
        /\ \E j \in 1..Len(sample.v[i].v.v) : sample.v[i].v.v[j] = LF

\* C1: for every dict input the call returns that very dict, unchanged,
\* without attempting any decode strategy and without raising.
C1_DictPassThrough ==
  (form = "dict")
    => /\ Identical(value, sample)
       /\ tried = <<>>
       /\ outcome.status # "raised"
       /\ pc = "done" => outcome.status = "returned" /\ Identical(outcome.val, sample)

C1_Witness ==
  /\ form = "dict" /\ pc = "done" /\ outcome.status = "returned"
  /\ Len(value.v) = 2 /\ SampleHasNewline

\* C2: for every valid credential mapping m, normalize(json.dumps(m))
\* returns a mapping equal to m, by the raw-JSON strategy.
C2_RawJsonRoundTrip ==
  (form = "json" /\ pc = "done") => ReturnedEqual(sample) /\ tried = <<"raw">>

C2_Witness ==
  /\ form = "json" /\ pc = "done" /\ SampleHasNewline
  /\ outcome.status = "returned" /\ Len(outcome.val.v) = 2

C4_Base64RoundTrip ==
  (form = "base64" /\ pc = "done") => ReturnedEqual(sample)

C4_Witness ==
  /\ form = "base64" /\ pc = "done" /\ outcome.status = "returned"
  /\ tried = <<"raw", "escaped", "base64">>
  /\ value.v[Len(value.v)] = EQUALS
  /\ SampleHasNewline

\* C5: for every valid credential mapping m, normalize applied to the base64
\* of the JSON text of m with its trailing '=' stripped returns a mapping
\* equal to m.
C5_Base64NoPaddingRoundTrip ==
  (form = "base64_nopad" /\ pc = "done") => ReturnedEqual(sample)

C5_Witness ==
  /\ form = "base64_nopad" /\ pc = "done" /\ outcome.status = "returned"
  /\ Len(value.v) % 4 # 0
  /\ tried = StrategyOrder
  /\ Len(sample.v) > 0

\* C6: for every text input on which all four attempts fail, the call ends
\* by raising the final ValueError and returns nothing.
C6_AllFailRaises ==
  (pc = "done" /\ value.t = "str" /\ AllStrategiesFail(value.v))
    => outcome = Raised(AllFailedError)

C6_Witness ==
  /\ pc = "done" /\ value.t = "str" /\ AllStrategiesFail(value.v)
  /\ outcome.status = "raised" /\ Len(value.v) > 20

C8_ReturnsOnlyMappings ==
  outcome.status = "returned" => outcome.val.t = "dict"

\* The strategy a step from the current state runs.
StrategyAt(at) ==
  IF at = "call" THEN "raw"
  ELSE IF at = "escaped" THEN "escaped"
  ELSE IF at = "base64" THEN "base64"
  ELSE "padfix"

\* C9: a strategy whose JSON document parses to something that is no
\* mapping counts as failed: the step returns nothing and the call goes on
\* to the next strategy.
C9_NonMappingCountsAsFailure ==
  [][ (pc \in {"call", "escaped", "base64", "padfix"} /\ value.t = "str")
        => LET r == StrategyResult(StrategyAt(pc), value.v) IN
           (r.ok /\ r.val.t # "dict")
             => (outcome'.status = "pending" /\ pc' # "done") ]_vars

\* s is an initial part of t.
IsPrefix(s, t) == Len(s) <= Len(t) /\ \A i \in 1..Len(s) : s[i] = t[i]

\* C10: on a text the strategies run in the order raw, escaped, base64,
\* padfix; one is attempted only after all the earlier ones failed; the
\* first that succeeds gives the result and ends the call; the call raises
\* only after all four failed.
C10_FixedOrder ==
  value.t = "str"
    => /\ IsPrefix(tried, StrategyOrder)
       /\ \A i \in 1..(Len(tried) - 1) : ~StrategyResult(tried[i], value.v).ok
       /\ outcome.status = "pending" /\ tried # <<>>
            => ~StrategyResult(tried[Len(tried)], value.v).ok
       /\ outcome.status = "returned"
            => /\ pc = "done"
               /\ tried # <<>>
               /\ StrategyResult(tried[Len(tried)], value.v).ok
               /\ Identical(outcome.val, StrategyResult(tried[Len(tried)], value.v).val)
       /\ outcome.status = "raised"
            => /\ pc = "done"
               /\ tried = StrategyOrder
               /\ ~StrategyResult(tried[Len(tried)], value.v).ok
       /\ pc = "done" => outcome.status # "pending"

C10_Witness ==
  /\ value.t = "str" /\ pc = "done" /\ outcome.status = "returned"
  /\ tried = <<"raw", "escaped">>

\* C11: whatever text fails, the error raised is one and the same: the
\* fixed ValueError of lines 79-81, whose message names raw JSON,
\* escaped-newlines and base64 and has no field filled from the input.
C11_MessageIndependentOfInput ==
  (pc = "done" /\ value.t = "str" /\ outcome.status = "raised")
    => /\ outcome.exc = AllFailedError
       /\ DOMAIN outcome.exc = {"cls", "msg"}

C11_Witness ==
  /\ pc = "done" /\ value.t = "str" /\ outcome.status = "raised"
  /\ \E i \in 1..Len(value.v) : value.v[i] = QUOTE
  /\ outcome.exc.msg = AllFailedError.msg

\* C12: every log record carries coarse metadata only: a fixed message,
\* at most the length of the input, and no byte or character of the input
\* or of what it decodes to, the text of a logged exception included.
C12_LogsOnlyCoarseMetadata ==
  \A i \in 1..Len(log) :
    /\ log[i].exc.quoted = <<>>
    /\ log[i].num \in {-1, Len(value.v)}

\* C13: every call ends, by returning or by raising, after at most one
\* attempt of each of the four strategies; once ended it takes no further
\* step; and a call on a text whose four attempts all raise does not return.
C13_TerminatesAfterChain ==
  /\ [](/\ pc # "done" => HasNextStatement
        /\ Len(tried) <= 4
        /\ \A i, j \in 1..Len(tried) : i # j => tried[i] # tried[j]
        /\ pc = "done" => outcome.status \in {"returned", "raised"}
        /\ (value.t = "str" /\ outcome.status = "returned")
             => ~AllStrategiesFail(value.v))
  /\ [][pc # "done"]_vars
  /\ <>(pc = "done")

C13_Witness ==
  /\ form = "text" /\ pc = "done" /\ Len(tried) = 4
  /\ outcome.status = "returned"

\* C14: under every interleaving of the steps of two or three calls, each
\* call that has ended, running or parked, has the outcome its argument
\* gives when the call runs alone; only the shared log tells that the
\* calls were interleaved.
C14_ConcurrentCallsIndependent ==
  /\ pc = "done" => outcome = NormalizeOutcome(value)
  /\ \A i \in 1..Len(parked) :
       parked[i].pc = "done" => parked[i].outcome = NormalizeOutcome(parked[i].value)

\* Two calls on the padding-repair path have both ended, and their log
\* records are interleaved: the first call logged again after the second
\* had started logging.
C14_Witness ==
  /\ Len(parked) = 1
  /\ pc = "done" /\ parked[1].pc = "done"
  /\ Len(tried) = 4 /\ Len(parked[1].tried) = 4
  /\ value # parked[1].value
  /\ outcome.status = "returned" /\ parked[1].outcome.status = "raised"
  /\ Len(log) >= 4
  /\ log[1].msg = "trying raw json load" /\ log[3].msg = "trying raw json load"

\* All calls of setup_logging so far were given one and the same path.
SamePathCalls ==
  /\ setupCalls # <<>>
  /\ \A i \in 1..Len(setupCalls) : setupCalls[i].path = setupCalls[1].path
FileHandlersOn(path) ==
  {i \in 1..Len(handlers) :
      handlers[i].cls = "RotatingFileHandler" /\ handlers[i].baseFilename = Abspath(path)}
ConsoleHandlersAdded ==
  {i \in 1..Len(handlers) :
      handlers[i].cls = "StreamHandler" /\ handlers[i].by = "setup_logging"}

\* C15: after one or more calls of setup_logging with the same path the
\* root logger holds exactly one RotatingFileHandler on that file and
\* exactly one console handler that setup_logging added, and no call but
\* the first changed the logger.
C15_SetupLoggingIdempotent ==
  SamePathCalls
    => /\ Cardinality(FileHandlersOn(setupCalls[1].path)) = 1
       /\ Cardinality(ConsoleHandlersAdded) = 1
       /\ \A i \in 2..Len(setupCalls) : ~setupCalls[i].changed

\* The calls of get_google_service that returned.
ReturnedCalls == {i \in 1..Len(served) : served[i].result = "returned"}

\* C16: over any sequence of calls of get_google_service at most one
\* returning call ran the constructor; every call after the first that
\* returned returns too, the same instance, without constructing, whatever
\* credentials_path it was given.
C16_Singleton ==
  /\ Cardinality({i \in ReturnedCalls : served[i].constructs}) <= 1
  /\ \A i \in ReturnedCalls :
       /\ served[i].instance # NoInstance
       /\ \A j \in (i + 1)..Len(served) :
            /\ j \in ReturnedCalls
            /\ served[j].instance = served[i].instance
            /\ ~served[j].constructs

\* A call raised, the next constructed and returned, and a third one, given
\* a path at which there is no file, returned that instance.
C16_Witness ==
  /\ Len(served) = 3
  /\ served[1].result = "raised"
  /\ served[2].result = "returned" /\ served[2].credentials_path = PyNone
  /\ served[3].result = "returned" /\ served[3].credentials_path = PyStr(ArgFilePath)
  /\ disk[ArgFilePath] = "missing"
  /\ served[3].instance = served[2].instance

\* The source the priority names for a construction: the JSON variable when
\* set and not empty, else the FILE variable when set and its file exists,
\* else the credentials_path argument, else the default path.
SourceByPriority ==
  IF environ.json_env # PyNone /\ Len(environ.json_env.v) > 0
  THEN "GOOGLE_SERVICE_ACCOUNT_JSON"
  ELSE IF /\ environ.file_env # PyNone
          /\ Len(environ.file_env.v) > 0
          /\ disk[environ.file_env.v] \in {"valid", "invalid"}
  THEN "GOOGLE_SERVICE_ACCOUNT_FILE"
  ELSE IF constructed.credentials_path # PyNone THEN "credentials_path"
  ELSE "default"

\* C20: a construction goes to exactly one credential source, the one the
\* priority names for what is set and present; when that source fails the
\* construction raises, having gone to no other.
C20_SourcePriority ==
  constructed.made
    => /\ constructed.sources = <<SourceByPriority>>
       /\ constructed.result \in {"built", "raised"}
       /\ constructed.result = "raised" => constructed.at # "none"

\* GOOGLE_SERVICE_ACCOUNT_JSON is set and does not normalize, while the
\* FILE variable names a valid file: the construction raised.
C20_Witness ==
  /\ constructed.made
  /\ constructed.result = "raised"
  /\ constructed.at = "normalize_service_account_json"
  /\ constructed.sources = <<"GOOGLE_SERVICE_ACCOUNT_JSON">>
  /\ environ.file_env = PyStr(EnvFilePath)
  /\ disk[EnvFilePath] = "valid"

\* Drive kept to the page sizes asked for.
PagesWithinSize ==
  \A i \in 1..Len(requests) : requests[i].returned <= requests[i].pageSize

\* C17: for max_results > 0, when no page holds more files than its
\* pageSize, every request asks for between 1 and
\* min(200, max_results - files fetched so far) files, and the list built
\* and returned holds at most max_results files.
C17_PageSizeBound ==
  (max_results > 0 /\ PagesWithinSize)
    => /\ \A i \in 1..Len(requests) :
            /\ requests[i].pageSize >= 1
            /\ requests[i].pageSize <= 200
            /\ requests[i].pageSize <= max_results - requests[i].before
       /\ all_files <= max_results
       /\ listed <= max_results

\* 201 files were asked for: a full page of 200, then a page of 1, and the
\* 201 files are returned.
C17_Witness ==
  /\ max_results = 201
  /\ listPc = "done"
  /\ Len(requests) = 2
  /\ requests[1].pageSize = 200 /\ requests[1].returned = 200
  /\ requests[2].pageSize = 1 /\ requests[2].returned = 1
  /\ listed = 201

\* C18: the padding repair runs only after the direct base64 attempt on
\* the cleaned text has failed; the text it decodes is the cleaned text
\* followed by (-length) mod 4 '=' characters, between 0 and 3 of them, so
\* its length is a multiple of 4 and with a deficit of 0 it is the cleaned
\* text itself; the result of the attempt is that of decoding this text.
C18_PaddingRepair ==
  /\ Len(tried) < 4 => candidate2 = <<>>
  /\ Len(tried) = 4
       => /\ tried[3] = "base64" /\ tried[4] = "padfix"
          /\ ~Base64JsonAttempt(candidate).ok
          /\ \E k \in 0..3 :
               /\ (Len(candidate) + k) % 4 = 0
               /\ candidate2 = candidate \o [i \in 1..k |-> EQUALS]
          /\ Len(candidate2) % 4 = 0
          /\ Len(candidate) % 4 = 0 => candidate2 = candidate
          /\ LET again == Base64JsonAttempt(candidate2) IN
               IF again.ok
               THEN outcome.status = "returned" /\ outcome.val = again.val
               ELSE outcome.status # "returned"

\* A text of length 3 was completed with one '=' and decoded to a mapping.
C18_Witness ==
  /\ form = "base64_nopad"
  /\ Len(tried) = 4
  /\ Len(candidate) % 4 = 3
  /\ Len(candidate2) = Len(candidate) + 1
  /\ candidate2[Len(candidate2)] = EQUALS
  /\ outcome.status = "returned"

\* C19: for the base64 text b of a valid credential mapping, wrapped in
\* whitespace and broken by CR or LF at any places, the text that is
\* decoded is b itself, and the call returns the mapping: what it returns
\* for b.
C19_CleanupBeforeDecoding ==
  form = "base64_wrapped"
    => /\ Len(tried) >= 3 => candidate = Base64Text(sample)
       /\ pc = "done"
            => /\ tried = <<"raw", "escaped", "base64">>
               /\ ReturnedEqual(sample)
               /\ outcome = NormalizeOutcome(PyStr(Base64Text(sample)))

\* A text with whitespace before it, a line break inside and one at its
\* end was decoded.
C19_Witness ==
  /\ form = "base64_wrapped"
  /\ pc = "done"
  /\ outcome.status = "returned"
  /\ Len(sample.v) = 2
  /\ value.v[1] = SPACE
  /\ value.v[Len(value.v)] = LF
  /\ \E i \in 3..(Len(value.v) - 3) : value.v[i] = CR /\ value.v[i + 1] = LF

\* The calls of get_google_service in which the constructor raised.
RaisedCalls == {i \in 1..Len(served) : served[i].result = "raised"}

\* C26: a call of get_google_service whose construction raised ran the
\* constructor with the singleton None, raised to its caller and handed out
\* no instance; the singleton is None after it, and the next call runs the
\* constructor again. The singleton is never an instance other than the
\* one a construction that succeeded has returned.
C26_FailedConstructionLeavesNone ==
  /\ \A i \in RaisedCalls :
       /\ served[i].constructs
       /\ served[i].instance = NoInstance
       /\ \A j \in 1..(i - 1) : served[j].result = "raised"
       /\ i = Len(served) => service_instance = NoInstance
       /\ i < Len(served) => served[i + 1].constructs
  /\ service_instance # NoInstance
       => \E i \in ReturnedCalls :
            served[i].constructs /\ served[i].instance = service_instance

\* Two calls raised one after the other, each having run the constructor,
\* and the singleton is still None.
C26_Witness ==
  /\ Len(served) = 2
  /\ served[1].result = "raised" /\ served[1].constructs
  /\ served[2].result = "raised" /\ served[2].constructs
  /\ constructed.serial = 2
  /\ service_instance = NoInstance

\* C23: every call of list_spreadsheets that keeps running comes to its
\* end, returning or raising, whatever Drive answers to its requests.
C23_LoopTerminates == <>(listPc \in {"done", "raised"})

\* C24: when execute() threw, a 404 ends the call returning the empty
\* list and raising nothing, a 403 ends it raising PermissionError, and
\* anything else ends it raising what was thrown; the call never returns
\* the files of the pages fetched before.
C24_HttpErrorOutcomes ==
  thrown # NoDriveError
    => /\ listPc \in {"done", "raised"}
       /\ (thrown.cls = "HttpError" /\ thrown.status = 404)
            => listPc = "done" /\ listed = 0 /\ listRaised = NoDriveError
       /\ (thrown.cls = "HttpError" /\ thrown.status = 403)
            => listPc = "raised" /\ listRaised.cls = "PermissionError"
       /\ ~(thrown.cls = "HttpError" /\ thrown.status \in {403, 404})
            => listPc = "raised" /\ listRaised = thrown
       /\ listPc = "raised" => listed = -1
       /\ listed <= 0

\* A first page of 200 files was fetched, the request of the second got a
\* 404, and the empty list was returned.
C24_Witness ==
  /\ thrown = HttpError(404)
  /\ Len(requests) = 1
  /\ all_files = 200
  /\ listPc = "done"
  /\ listed = 0

\* The header cell at position i is not named again after it.
LastOf(headers, i) == \A j \in (i + 1)..Len(headers) : headers[j] # headers[i]

\* C22: a call that returned without any row read returns the empty list;
\* otherwise it returns one dictionary per row after the first, the r-th
\* made from the r-th of these rows: its keys are the cells of the first
\* row, a header position beyond the row's length has the value "", a
\* position within it has the row's cell at that position (for a header
\* named twice, the later position), and no cell beyond the header's
\* length appears.
C22_FormResponses ==
  formPc = "done"
    => IF values = <<>> THEN form_responses = <<>>
       ELSE /\ Len(form_responses) = Len(values) - 1
            /\ \A r \in 1..Len(form_responses) :
                 LET headers == values[1]
                     row == values[r + 1]
                     row_dict == form_responses[r]
                 IN /\ DOMAIN row_dict = {headers[i] : i \in 1..Len(headers)}
                    /\ \A i \in 1..Len(headers) :
                         /\ i > Len(row) => row_dict[headers[i]] = ""
                         /\ (i <= Len(row) /\ LastOf(headers, i))
                              => row_dict[headers[i]] = row[i]
                    /\ \A k \in DOMAIN row_dict :
                         \E i \in 1..Len(headers) :
                            /\ headers[i] = k
                            /\ row_dict[k] = IF i <= Len(row) THEN row[i] ELSE ""

\* Two header cells; a first row of three cells, whose third is dropped,
\* and a second row of one cell, whose second column is filled with "".
C22_Witness ==
  /\ formPc = "done"
  /\ values = <<(<<"Nome", "Nota">>), (<<"Ana", "8", "sim">>), (<<"">>)>>
  /\ form_responses = <<[Nome |-> "Ana", Nota |-> "8"], [Nome |-> "", Nota |-> ""]>>

\* The files converted, in the order of their conversion.
IsCreated(c) == c.created
Created == SelectSeq(conversions, IsCreated)
FileOf(c) == files[CHOOSE i \in 1..Len(files) : files[i].id = c.id]

\* C21: every file converted is one of the listing that is no Google
\* Sheet; no Google Sheet of the listing has its base name, compared
\* without regard to case; no file converted before it in the run has it;
\* so the files converted have pairwise different base names.
C21_OneConversionPerBaseName ==
  \A k \in 1..Len(Created) :
     LET f == FileOf(Created[k])
         bn == Lower(BaseName(f.name))
     IN /\ f.mimeType # GoogleSheetMime
        /\ Created[k].new_title = BaseName(f.name)
        /\ \A i \in 1..Len(files) :
             files[i].mimeType = GoogleSheetMime
               => Lower(BaseName(files[i].name)) # bn
        /\ \A j \in 1..(k - 1) : Lower(BaseName(FileOf(Created[j]).name)) # bn

\* "S.csv" was converted, "r.xlsx" too, and "R.XLS", listed after it, was
\* passed over.
C21_Witness ==
  /\ convertPc = "done"
  /\ Len(files) = 3
  /\ files[1].name = Text(<<"S", ".", "c", "s", "v">>)
  /\ files[2].name = Text(<<"r", ".", "x", "l", "s", "x">>)
  /\ files[3].name = Text(<<"R", ".", "X", "L", "S">>)
  /\ convert_result = [converted |-> 2, skipped |-> 1]

\* C25: with max_conversions > 0 at most max_conversions files are
\* converted, and no file is looked at once that many are; in every run
\* each file looked at is counted once, as converted or as skipped, and
\* no more are counted than there are files that are no Google Sheets;
\* the counts returned are these.
C25_ConversionLimit ==
  /\ max_conversions > 0
       => /\ converted <= max_conversions
          /\ Len(Created) <= max_conversions
          /\ converted = max_conversions => convertPc # "scan"
  /\ Len(Created) = converted
  /\ converted + skipped = scanned
  /\ scanned <= Len(Others(files))
  /\ \A j, k \in 1..Len(conversions) :
       conversions[j].id = conversions[k].id => j = k
  /\ convertPc = "done"
       => convert_result = [converted |-> converted, skipped |-> skipped]

\* One conversion allowed and three files to convert: the first was
\* converted and the other two were not looked at.
C25_Witness ==
  /\ convertPc = "done"
  /\ max_conversions = 1
  /\ Len(Others(files)) = 3
  /\ \A i \in 1..3 : ~Skips(files[i], include_csv, include_xls, {})
  /\ Cardinality({Lower(BaseName(files[i].name)) : i \in 1..3}) = 3
  /\ scanned = 1
  /\ convert_result = [converted |-> 1, skipped |-> 0]

====
